---- MODULE Spec2Model ----
(***************************************************************************)
(* Model of the newsletter subscriber services: the SQS-triggered          *)
(* processor (newsletter_sqs_processor_lambda.py) that reconciles          *)
(* subscribe/unsubscribe operation messages into the DynamoDB subscribers  *)
(* table, and the admin API's writes to that table (handlers/subscribers.py). *)
(*                                                                         *)
(* A table item is a function from attribute names to values, as a         *)
(* DynamoDB item is; the table is the set of its items, at most one per    *)
(* primary key 'id'.  One invocation of lambda_handler is a process with   *)
(* a program counter: it takes the records of its event one at a time      *)
(* (Receive), looks the subscriber up by email (Query), and applies the    *)
(* operation (Apply).  The lookup and the write are separate calls to the  *)
(* table, so they are separate steps.                                      *)
(***************************************************************************)
EXTENDS Integers, Sequences, FiniteSets, TLC

\* ------------------------------------------------------------------ bounds

\* The engine clock runs over 1..MaxTime.
MaxTime == 3
\* uuid4() hands out at most MaxIds fresh identifiers.
MaxIds == 3
\* An event whose records are left open carries at most MaxBatch records.
MaxBatch == 2
\* An event whose records are known ahead carries at most MaxRecords records.
MaxRecords == 3
\* Handler invocations that exist side by side.
NumWorkers == 2
\* The run counter of the delivery history saturates at MaxRun.
MaxRun == 3
\* The operations queue holds at most MaxQueue messages.
MaxQueue == 2

Workers == 1..NumWorkers

\* ------------------------------------------------------------------ inputs

\* Python's None, for OperationMessage.name and for a lookup that found nothing.
NULL == "<None>"
None == [none |-> TRUE]

\* A JSON number where the model wants a string.
JsonNumber == "<number>"

\* Addresses as pydantic's EmailStr returns them.
Emails == {"a@x.com", "b@x.com"}
\* Addresses as they may appear in a message body; "not-an-email" fails EmailStr.
RawEmails == Emails \cup {"a@X.COM", "not-an-email"}
\* Who sends: the name given (None when the request carries none) and the
\* (sourceIp, userAgent) of the originating request.
Senders == {<<"A", "1.1.1.1", "UA1">>, <<NULL, "2.2.2.2", "UA2">>}
\* Producer-side timestamps.
Timestamps == {1000, 2000}

Payload(op, e, snd, t) ==
    [operation |-> op, email |-> e, name |-> snd[1],
     ip_address |-> snd[2], user_agent |-> snd[3], timestamp |-> t]

\* Message bodies: JSON objects with every field, with an unknown operation,
\* with a bad address, with fields missing, with a number for the name, and
\* text that is not JSON.
GoodBodies ==
    { [json |-> TRUE, data |-> Payload(op, e, snd, t)] :
        op \in {"subscribe", "unsubscribe"}, e \in RawEmails \ {"not-an-email"},
        snd \in Senders, t \in Timestamps }
OddBodies ==
    { [json |-> TRUE, data |-> Payload("resubscribe", "a@x.com", <<"A", "1.1.1.1", "UA1">>, 1000)],
      [json |-> TRUE, data |-> Payload("subscribe", "not-an-email", <<"A", "1.1.1.1", "UA1">>, 1000)],
      [json |-> TRUE, data |-> [operation |-> "subscribe", email |-> "a@x.com", name |-> "A"]],
      [json |-> TRUE, data |-> Payload("subscribe", "a@x.com", <<JsonNumber, "1.1.1.1", "UA1">>, 1000)],
      [json |-> FALSE, data |-> [raw |-> "{not json"]] }
Bodies == GoodBodies \cup OddBodies
\* The well-formed bodies produced at one time.
TimelyBodies == {body \in GoodBodies : body.data.timestamp = 1000}
\* The well-formed bodies of one sender at one time.
PlainBodies ==
    { [json |-> TRUE, data |-> Payload(op, e, <<"A", "1.1.1.1", "UA1">>, 1000)] :
        op \in {"subscribe", "unsubscribe"}, e \in Emails }

\* EmailStr validation: the domain part is lower-cased, the local part kept.
NormalizeEmail(e) == IF e = "a@X.COM" THEN "a@x.com" ELSE e
ValidEmail(e) == NormalizeEmail(e) \in Emails

\* OperationMessage(**message_data): the fields without a default must be
\* there, the address must validate and the name, when given, must be a
\* string or null.
Validates(data) ==
    /\ {"operation", "email", "ip_address", "user_agent", "timestamp"} \subseteq DOMAIN data
    /\ ValidEmail(data.email)
    /\ ("name" \in DOMAIN data => data.name # JsonNumber)

OperationMessage(data) ==
    [operation |-> data.operation,
     email |-> NormalizeEmail(data.email),
     name |-> IF "name" \in DOMAIN data THEN data.name ELSE NULL,
     ip_address |-> data.ip_address,
     user_agent |-> data.user_agent,
     timestamp |-> data.timestamp]

NoMessage == [operation |-> "", email |-> "", name |-> NULL,
              ip_address |-> "", user_agent |-> "", timestamp |-> 0]

\* ------------------------------------------------------------------- state

VARIABLES
    subscribers_table,   \* the DynamoDB table: a set of items
    now,                 \* the clock datetime.utcnow() reads
    uuid,                \* how many identifiers uuid4() has handed out
    pc,                  \* where each invocation of lambda_handler stands
    event,               \* the Records of the event it was given, when known ahead
    idx,                 \* records of the event taken so far
    operation_message,   \* the parsed message being processed
    current_timestamp,   \* the clock value read for it
    existing_subscriber, \* what query_subscriber_by_email returned for it
    processed_count,
    failed_count,
    failed_messages,
    queue,               \* the operations queue: the message bodies sent and not yet delivered
    response,            \* what the API handler called last returned, with the request it answered
    hist,                \* history of the deliveries applied (not program state)
    shadow               \* the table of a second run of the engine (not program state)

vars == <<subscribers_table, now, uuid, pc, event, idx, operation_message,
          current_timestamp, existing_subscriber, processed_count,
          failed_count, failed_messages, queue, response, hist, shadow>>

locals == <<operation_message, current_timestamp, existing_subscriber>>
result == <<processed_count, failed_count, failed_messages>>
\* What the handler of the processor never touches.
apis == <<queue, response>>

\* ------------------------------------------------------------ table access

\* dict.get(key, default)
Get(item, key, default) == IF key \in DOMAIN item THEN item[key] ELSE default

\* The items the email-index holds under an address.
ByEmail(tbl, e) == {it \in tbl : "email" \in DOMAIN it /\ it.email = e}

\* Table.put_item(Item=item): the item replaces the one with its key.
PutItem(tbl, item) == {it \in tbl : it.id # item.id} \cup {item}

\* Table.update_item(Key={'id': id}, UpdateExpression='SET ...') without a
\* condition: the attributes are set on the item with that key, and an item
\* holding the key and those attributes is made when there is none.
UpdateItem(tbl, id, set) ==
    LET old == IF \E it \in tbl : it.id = id
               THEN CHOOSE it \in tbl : it.id = id
               ELSE [id |-> id]
        new == [k \in DOMAIN set \cup DOMAIN old |->
                   IF k \in DOMAIN set THEN set[k] ELSE old[k]]
    IN  {it \in tbl : it.id # id} \cup {new}

\* The state of an address in the sense of the lifecycle: no record, a record
\* with status 'active', or a record with another status.
StateOf(tbl, e) ==
    IF ByEmail(tbl, e) = {} THEN "Absent"
    ELSE IF \E it \in ByEmail(tbl, e) : Get(it, "status", "inactive") = "active"
         THEN "Active" ELSE "Inactive"

\* ---------------------------------------------------------------- history

Min(a, b) == IF a < b THEN a ELSE b

\* The latest run of deliveries, a run being successive applications of one
\* operation to one address (a message delivered again and again is such a
\* run): operation and email are those of the message applied last, n is how
\* many applications the run has so far (counted up to MaxRun) and start the
\* state of the address before the first of them.  For a run of subscribes
\* that began on an Absent address, first and last are the clock values read
\* for its first and its latest application (0 for any other run).  prev is
\* the operation of the run before, when that run was for the same address
\* and began while the address was Absent ("" otherwise).
NoHist == [operation |-> "", email |-> "", n |-> 0, start |-> "Absent",
           first |-> 0, last |-> 0, prev |-> ""]

Continues(h, m) == m.operation = h.operation /\ m.email = h.email

Timed(op, start) == op = "subscribe" /\ start = "Absent"

Record(h, m, ts, tbl) ==
    IF Continues(h, m)
    THEN [h EXCEPT !.n = Min(h.n + 1, MaxRun),
                   !.last = IF Timed(h.operation, h.start) THEN ts ELSE 0]
    ELSE [operation |-> m.operation,
          email |-> m.email,
          n |-> 1,
          start |-> StateOf(tbl, m.email),
          first |-> IF Timed(m.operation, StateOf(tbl, m.email)) THEN ts ELSE 0,
          last |-> IF Timed(m.operation, StateOf(tbl, m.email)) THEN ts ELSE 0,
          prev |-> IF h.email = m.email /\ h.start = "Absent" THEN h.operation ELSE ""]

\* No API handler has returned yet.
NoResponse == [request |-> [route |-> ""], status |-> 0]

\* -------------------------------------------------------------------- init

Init ==
    /\ subscribers_table = {}
    /\ now = 1
    /\ uuid = 0
    /\ pc = [w \in Workers |-> "idle"]
    /\ event = [w \in Workers |-> <<>>]
    /\ idx = [w \in Workers |-> 0]
    /\ operation_message = [w \in Workers |-> NoMessage]
    /\ current_timestamp = [w \in Workers |-> 0]
    /\ existing_subscriber = [w \in Workers |-> None]
    /\ processed_count = [w \in Workers |-> 0]
    /\ failed_count = [w \in Workers |-> 0]
    /\ failed_messages = [w \in Workers |-> <<>>]
    /\ queue = <<>>
    /\ response = NoResponse
    /\ hist = NoHist
    /\ shadow = {}

\* ----------------------------------------------------------------- actions

\* Time passes.
Tick ==
    /\ now < MaxTime
    /\ now' = now + 1
    /\ UNCHANGED <<subscribers_table, uuid, pc, event, idx, locals, result, apis, hist, shadow>>

Resting(w) == pc[w] \in {"idle", "done"}

\* lambda_handler is entered with an event: the counters start at zero.
Invoke(w, records) ==
    /\ Resting(w)
    /\ event' = [event EXCEPT ![w] = records]
    /\ pc' = [pc EXCEPT ![w] = "loop"]
    /\ idx' = [idx EXCEPT ![w] = 0]
    /\ processed_count' = [processed_count EXCEPT ![w] = 0]
    /\ failed_count' = [failed_count EXCEPT ![w] = 0]
    /\ failed_messages' = [failed_messages EXCEPT ![w] = <<>>]
    /\ UNCHANGED <<subscribers_table, now, uuid, locals, apis, hist, shadow>>

\* It is entered with an event whose records are left open until they are
\* taken.
Start(w) == Invoke(w, <<>>)

\* A failure counted and not listed.
FailedSilently(w, handle, error) ==
    /\ failed_count' = [failed_count EXCEPT ![w] = @ + 1]
    /\ UNCHANGED <<pc, operation_message, current_timestamp, failed_messages>>

\* The except clauses of the loop body: the record is counted and listed as
\* failed.
Failed(w, handle, error) ==
    /\ failed_count' = [failed_count EXCEPT ![w] = @ + 1]
    /\ failed_messages' = [failed_messages EXCEPT
                              ![w] = Append(@, [receipt_handle |-> handle, error |-> error])]
    /\ UNCHANGED <<pc, operation_message, current_timestamp>>

\* An unknown operation put through as processed.
UnknownOperationProcessed(w) ==
    /\ processed_count' = [processed_count EXCEPT ![w] = @ + 1]
    /\ UNCHANGED <<pc, operation_message, current_timestamp, failed_count,
                   failed_messages>>

\* The else branch of the dispatch: the operation is neither subscribe nor
\* unsubscribe.
UnknownOperation(w) ==
    /\ failed_count' = [failed_count EXCEPT ![w] = @ + 1]
    /\ UNCHANGED <<pc, operation_message, current_timestamp, failed_messages,
                   processed_count>>

\* What the loop body does with the next record, one out of records, up to
\* the call of process_subscribe_operation / process_unsubscribe_operation
\* and the clock read that opens either.
Take(w, records) ==
    /\ pc[w] = "loop"
    /\ idx' = [idx EXCEPT ![w] = @ + 1]
    /\ \E record \in records :
          IF ~record.body.json
          THEN Failed(w, record.receiptHandle, "JSONDecodeError") /\ UNCHANGED processed_count
          ELSE IF ~Validates(record.body.data)
          THEN Failed(w, record.receiptHandle, "ValidationError") /\ UNCHANGED processed_count
          ELSE LET m == OperationMessage(record.body.data) IN
               IF m.operation \in {"subscribe", "unsubscribe"}
               THEN /\ operation_message' = [operation_message EXCEPT ![w] = m]
                    /\ current_timestamp' = [current_timestamp EXCEPT ![w] = now]
                    /\ pc' = [pc EXCEPT ![w] = "query"]
                    /\ UNCHANGED <<failed_count, failed_messages, processed_count>>
               ELSE UnknownOperation(w)
    /\ UNCHANGED <<subscribers_table, now, uuid, event, existing_subscriber, apis, hist, shadow>>

\* The records an event may hold next, with one of bodies as the body, when
\* it holds a next one: the handle is the record's place in the event.
Records(w, bodies) ==
    IF idx[w] < MaxBatch
    THEN {[receiptHandle |-> idx[w] + 1, body |-> body] : body \in bodies}
    ELSE {}

\* The next record of the event is a well-formed subscribe or unsubscribe.
Receive(w) == Take(w, Records(w, TimelyBodies))

\* The same, of one sender.
ReceivePlain(w) == Take(w, Records(w, PlainBodies))

\* The next record of the event is any body.
ReceiveAny(w) == Take(w, Records(w, Bodies))

\* A lookup that never finds anything.
query_finds_nothing(tbl, email) == {None}

\* query_subscriber_by_email: the first item the index returns, or None.
query_subscriber_by_email(tbl, email) ==
    IF ByEmail(tbl, email) = {} THEN {None} ELSE ByEmail(tbl, email)

Query(w) ==
    /\ pc[w] = "query"
    /\ \E found \in query_subscriber_by_email(subscribers_table, operation_message[w].email) :
          existing_subscriber' = [existing_subscriber EXCEPT ![w] = found]
    /\ pc' = [pc EXCEPT ![w] = "apply"]
    /\ UNCHANGED <<subscribers_table, now, uuid, event, idx, operation_message,
                   current_timestamp, result, apis, hist, shadow>>

\* A record stamped with the producer's timestamp instead of the engine clock.
new_subscriber_producer_time(id, message, ts) ==
    [id |-> id,
     email |-> message.email,
     name |-> message.name,
     status |-> "active",
     subscribed_at |-> message.timestamp,
     updated_at |-> message.timestamp,
     ip_address |-> message.ip_address,
     user_agent |-> message.user_agent]

\* The write of process_subscribe_operation, given what the lookup returned.
new_subscriber(id, message, ts) ==
    [id |-> id,
     email |-> message.email,
     name |-> message.name,
     status |-> "active",
     subscribed_at |-> ts,
     updated_at |-> ts,
     ip_address |-> message.ip_address,
     user_agent |-> message.user_agent]

\* A reactivation that starts the subscription over.
ReactivateAnew(tbl, existing, ts) ==
    UpdateItem(tbl, existing.id,
               [status |-> "active", subscribed_at |-> ts, updated_at |-> ts])

Reactivate(tbl, existing, ts) ==
    UpdateItem(tbl, existing.id, [status |-> "active", updated_at |-> ts])

\* A touch that moves both timestamps.
TouchBoth(tbl, existing, ts) ==
    UpdateItem(tbl, existing.id, [subscribed_at |-> ts, updated_at |-> ts])

\* A touch that leaves updated_at as it is.
TouchUnstamped(tbl, existing, ts) ==
    UpdateItem(tbl, existing.id, [status |-> "active"])

Touch(tbl, existing, ts) ==
    UpdateItem(tbl, existing.id, [updated_at |-> ts])

\* A re-subscribe that refreshes the provenance of an active record.
process_subscribe_refreshing(tbl, existing, message, ts, id) ==
    IF existing # None
    THEN IF Get(existing, "status", "inactive") = "inactive"
         THEN Reactivate(tbl, existing, ts)
         ELSE UpdateItem(tbl, existing.id,
                         [updated_at |-> ts,
                          ip_address |-> message.ip_address,
                          user_agent |-> message.user_agent])
    ELSE PutItem(tbl, new_subscriber(id, message, ts))

process_subscribe_operation(tbl, existing, message, ts, id) ==
    IF existing # None
    THEN IF Get(existing, "status", "inactive") = "inactive"
         THEN Reactivate(tbl, existing, ts)
         ELSE Touch(tbl, existing, ts)
    ELSE PutItem(tbl, new_subscriber(id, message, ts))

\* A deactivation that forgets the status.
DeactivateStale(tbl, existing, ts) ==
    UpdateItem(tbl, existing.id, [updated_at |-> ts])

\* A deactivation by put_item: the item is replaced, not updated.
DeactivateByPut(tbl, existing, ts) ==
    PutItem(tbl, [id |-> existing.id, status |-> "inactive", updated_at |-> ts])

\* A deactivation that writes the item back whole, as the lookup returned it.
DeactivateAsSeen(tbl, existing, ts) ==
    PutItem(tbl, [existing EXCEPT !.status = "inactive", !.updated_at = ts])

\* The write of process_unsubscribe_operation, given what the lookup returned.
Deactivate(tbl, existing, ts) ==
    UpdateItem(tbl, existing.id, [status |-> "inactive", updated_at |-> ts])

\* An unsubscribe that skips the write for a record that is inactive already.
process_unsubscribe_skipping(tbl, existing, ts) ==
    IF existing # None /\ Get(existing, "status", "inactive") = "active"
    THEN Deactivate(tbl, existing, ts)
    ELSE tbl

\* An unsubscribe that removes the record it finds inactive.
process_unsubscribe_purging(tbl, existing, ts) ==
    IF existing # None
    THEN IF Get(existing, "status", "inactive") = "active"
         THEN Deactivate(tbl, existing, ts)
         ELSE {it \in tbl : it.id # existing.id}
    ELSE tbl

process_unsubscribe_operation(tbl, existing, ts) ==
    IF existing # None
    THEN Deactivate(tbl, existing, ts)
    ELSE tbl

\* The table call that process_subscribe_operation or
\* process_unsubscribe_operation ends with, a fresh uuid4() before it when a
\* record is to be made.
Store(w) ==
    LET m == operation_message[w]
        found == existing_subscriber[w]
        ts == current_timestamp[w]
    IN  IF m.operation = "subscribe"
        THEN IF found = None
             THEN /\ uuid < MaxIds
                  /\ uuid' = uuid + 1
                  /\ subscribers_table' =
                        process_subscribe_operation(subscribers_table, found, m, ts, uuid + 1)
             ELSE /\ subscribers_table' =
                        process_subscribe_operation(subscribers_table, found, m, ts, 0)
                  /\ UNCHANGED uuid
        ELSE /\ subscribers_table' =
                   process_unsubscribe_operation(subscribers_table, found, ts)
             /\ UNCHANGED uuid

\* The call returns: the message is counted as processed.
Write(w) ==
    /\ pc[w] = "apply"
    /\ Store(w)
    /\ processed_count' = [processed_count EXCEPT ![w] = @ + 1]
    /\ pc' = [pc EXCEPT ![w] = "loop"]
    /\ operation_message' = [operation_message EXCEPT ![w] = NoMessage]
    /\ current_timestamp' = [current_timestamp EXCEPT ![w] = 0]
    /\ existing_subscriber' = [existing_subscriber EXCEPT ![w] = None]
    /\ UNCHANGED <<now, event, idx, failed_count, failed_messages, apis>>

\* The write, in a run where deliveries follow one another: the history
\* takes the application in.
Apply(w) ==
    /\ Write(w)
    /\ hist' = Record(hist, operation_message[w], current_timestamp[w], subscribers_table)
    /\ UNCHANGED shadow

\* The write, in a run where deliveries overlap: no history is kept.
ApplyConcurrent(w) ==
    /\ Write(w)
    /\ UNCHANGED <<hist, shadow>>

\* The event has no further record: the handler returns its result.
Return(w) ==
    /\ pc[w] = "loop"
    /\ pc' = [pc EXCEPT ![w] = "done"]
    /\ UNCHANGED <<subscribers_table, now, uuid, event, idx, locals, result, apis, hist, shadow>>

\* ---------------------------------------------------------- specifications

\* Batches handled one after another: one invocation at a time.
Sequential == {1}

Next ==
    \/ Tick
    \/ \E w \in Sequential : Start(w)
    \/ \E w \in Sequential : Receive(w)
    \/ \E w \in Sequential : Query(w)
    \/ \E w \in Sequential : Apply(w)
    \/ \E w \in Sequential : Return(w)

Spec == Init /\ [][Next]_vars

\* Invocations of the handler running side by side, on the messages of one
\* sender and within one second of the clock.
NextConcurrent ==
    \/ \E w \in Workers : Start(w)
    \/ \E w \in Workers : ReceivePlain(w)
    \/ \E w \in Workers : Query(w)
    \/ \E w \in Workers : ApplyConcurrent(w)
    \/ \E w \in Workers : Return(w)

SpecConcurrent == Init /\ [][NextConcurrent]_vars

\* --------------------------------------------------- batches known ahead

\* The bodies the events known ahead are made of: the well-formed ones of one
\* sender that the lifecycle of a@x.com and the creation of b@x.com take, and
\* the odd ones.
BatchBodies ==
    {body \in PlainBodies :
        body.data.email = "a@x.com" \/ body.data.operation = "subscribe"}
    \cup OddBodies

\* event['Records']: up to MaxRecords records, each with its receiptHandle
\* (its place in the event as first delivered) and its body.
Events ==
    UNION { { [i \in 1..n |-> [receiptHandle |-> i, body |-> f[i]]] :
                f \in [1..n -> BatchBodies] } : n \in 0..MaxRecords }

\* The queue hands a first batch to the handler.
Arrive(w) == pc[w] = "idle" /\ \E records \in Events : Invoke(w, records)

\* The handles the returned failed_messages list names.
FailedHandles(w) ==
    {failed_messages[w][i].receipt_handle : i \in 1..Len(failed_messages[w])}

Listed(w, record) == record.receiptHandle \in FailedHandles(w)

\* What the queue-acknowledgment collaborator makes of the result: the
\* records whose handles failed_messages names stay unacknowledged, the
\* others are acknowledged.
Unacknowledged(w) == SelectSeq(event[w], LAMBDA record : Listed(w, record))

\* The queue delivers the unacknowledged records of the batch again.
Redeliver(w) ==
    /\ pc[w] = "done"
    /\ Unacknowledged(w) # <<>>
    /\ Invoke(w, Unacknowledged(w))

\* A loop that goes through the event from its end.
TakeRecordBackwards(w) ==
    /\ idx[w] < Len(event[w])
    /\ Take(w, {event[w][Len(event[w]) - idx[w]]})

\* The loop body takes the next record of the event.
TakeRecord(w) ==
    /\ idx[w] < Len(event[w])
    /\ Take(w, {event[w][idx[w] + 1]})

\* A failure that leaves the handler: the invocation ends with the error.
CaughtNowhere(w, error) ==
    /\ pc' = [pc EXCEPT ![w] = "raised"]
    /\ UNCHANGED <<operation_message, current_timestamp, existing_subscriber,
                   failed_count, failed_messages>>

\* A failure that ends the loop: the handler returns what it has.
CaughtLast(w, error) ==
    /\ failed_count' = [failed_count EXCEPT ![w] = @ + 1]
    /\ failed_messages' =
          [failed_messages EXCEPT
              ![w] = Append(@, [receipt_handle |-> event[w][idx[w]].receiptHandle,
                                error |-> error])]
    /\ pc' = [pc EXCEPT ![w] = "done"]
    /\ UNCHANGED <<operation_message, current_timestamp, existing_subscriber>>

\* A failure counted without its handle.
CaughtUnlisted(w, error) ==
    /\ failed_count' = [failed_count EXCEPT ![w] = @ + 1]
    /\ pc' = [pc EXCEPT ![w] = "loop"]
    /\ operation_message' = [operation_message EXCEPT ![w] = NoMessage]
    /\ current_timestamp' = [current_timestamp EXCEPT ![w] = 0]
    /\ existing_subscriber' = [existing_subscriber EXCEPT ![w] = None]
    /\ UNCHANGED failed_messages

\* A failure after which the call is made once more.
CaughtRetrying(w, error) ==
    /\ pc' = [pc EXCEPT ![w] = "query"]
    /\ UNCHANGED <<operation_message, current_timestamp, existing_subscriber,
                   failed_count, failed_messages>>

\* except Exception, around a call of process_subscribe_operation or
\* process_unsubscribe_operation that raised: the record is counted and
\* listed as failed and the loop goes on.
Caught(w, error) ==
    /\ failed_count' = [failed_count EXCEPT ![w] = @ + 1]
    /\ failed_messages' =
          [failed_messages EXCEPT
              ![w] = Append(@, [receipt_handle |-> event[w][idx[w]].receiptHandle,
                                error |-> error])]
    /\ pc' = [pc EXCEPT ![w] = "loop"]
    /\ operation_message' = [operation_message EXCEPT ![w] = NoMessage]
    /\ current_timestamp' = [current_timestamp EXCEPT ![w] = 0]
    /\ existing_subscriber' = [existing_subscriber EXCEPT ![w] = None]

\* The lookup raises.
QueryFails(w) ==
    /\ pc[w] = "query"
    /\ Caught(w, "ClientError")
    /\ UNCHANGED <<subscribers_table, now, uuid, event, idx, processed_count, apis, hist, shadow>>

\* The write raises: the table did not take it, or took it and the answer
\* was lost.
WriteFails(w) ==
    /\ pc[w] = "apply"
    /\ Store(w) \/ UNCHANGED <<subscribers_table, uuid>>
    /\ Caught(w, "ClientError")
    /\ UNCHANGED <<now, event, idx, processed_count, apis, hist, shadow>>

\* The event has no further record: the handler returns its result.
ReturnBatch(w) ==
    /\ idx[w] = Len(event[w])
    /\ Return(w)

\* One step of the handler on its event.
Step(w) ==
    \/ TakeRecord(w)
    \/ Query(w)
    \/ QueryFails(w)
    \/ ApplyConcurrent(w)
    \/ WriteFails(w)
    \/ ReturnBatch(w)

\* A batch of any bodies and the redeliveries that follow it, from an empty
\* table, with table calls that may fail, within one second of the clock.
NextBatch ==
    \/ \E w \in Sequential : Arrive(w)
    \/ \E w \in Sequential : Redeliver(w)
    \/ \E w \in Sequential : TakeRecord(w)
    \/ \E w \in Sequential : Query(w)
    \/ \E w \in Sequential : QueryFails(w)
    \/ \E w \in Sequential : ApplyConcurrent(w)
    \/ \E w \in Sequential : WriteFails(w)
    \/ \E w \in Sequential : ReturnBatch(w)

SpecBatch == Init /\ [][NextBatch]_vars

\* The same, with a handler that goes on running once invoked.
SpecBatchFair ==
    Init /\ [][NextBatch]_vars /\ \A w \in Sequential : WF_vars(Step(w))

\* Events of the well-formed messages of one sender for either address.
OrderedEvents ==
    UNION { { [i \in 1..n |-> [receiptHandle |-> i, body |-> f[i]]] :
                f \in [1..n -> PlainBodies] } : n \in 0..MaxRecords }

ArriveOrdered(w) == pc[w] = "idle" /\ \E records \in OrderedEvents : Invoke(w, records)

\* One batch of well-formed messages handled from an empty table, with
\* table calls that succeed, within one second of the clock.
NextOrdered ==
    \/ \E w \in Sequential : ArriveOrdered(w)
    \/ \E w \in Sequential : TakeRecord(w)
    \/ \E w \in Sequential : Query(w)
    \/ \E w \in Sequential : ApplyConcurrent(w)
    \/ \E w \in Sequential : ReturnBatch(w)

SpecOrdered == Init /\ [][NextOrdered]_vars

\* ------------------------------------------------------------- admin API

\* The addresses the admin changes a subscriber's email to.
AdminEmails == {"c@x.com"}
\* The subscribers the admin's requests name: the first one made.
AdminIds == {1}

\* What a call that raised leaves in place of a value.
Raised == [raised |-> TRUE]

\* item_to_subscriber: 'id' and 'email' are read by key, the other
\* attributes with a default; Subscriber wants a string for the name.
item_to_subscriber(item) ==
    IF {"id", "email"} \subseteq DOMAIN item /\ Get(item, "name", "") # NULL
    THEN [id |-> item.id,
          email |-> item.email,
          name |-> Get(item, "name", ""),
          status |-> Get(item, "status", "inactive"),
          subscribed_at |-> Get(item, "subscribed_at", 0),
          updated_at |-> Get(item, "updated_at", 0),
          ip_address |-> Get(item, "ip_address", ""),
          user_agent |-> Get(item, "user_agent", "")]
    ELSE Raised

\* get_subscriber_by_id: get_item by key, None when there is no item.
get_subscriber_by_id(tbl, id) ==
    IF \E it \in tbl : it.id = id
    THEN item_to_subscriber(CHOOSE it \in tbl : it.id = id)
    ELSE None

\* An email update that dates the subscription anew.
update_subscriber_email_anew(tbl, id, new_email, ts) ==
    IF get_subscriber_by_id(tbl, id) \in {None, Raised}
    THEN tbl
    ELSE UpdateItem(tbl, id, [email |-> new_email, subscribed_at |-> ts, updated_at |-> ts])

\* update_subscriber_email, as to the table: nothing is written when the
\* subscriber is not found or cannot be read.
update_subscriber_email(tbl, id, new_email, ts) ==
    IF get_subscriber_by_id(tbl, id) \in {None, Raised}
    THEN tbl
    ELSE UpdateItem(tbl, id, [email |-> new_email, updated_at |-> ts])

\* delete_subscriber, as to the table.
delete_subscriber(tbl, id) ==
    IF get_subscriber_by_id(tbl, id) \in {None, Raised}
    THEN tbl
    ELSE {it \in tbl : it.id # id}

\* PATCH /v1/newsletter/admin/subscribers/<subscriber_id>
AdminUpdate ==
    /\ \E id \in AdminIds, new_email \in AdminEmails :
          subscribers_table' = update_subscriber_email(subscribers_table, id, new_email, now)
    /\ UNCHANGED <<now, uuid, pc, event, idx, locals, result, apis, hist, shadow>>

\* DELETE /v1/newsletter/admin/subscribers/<subscriber_id>
AdminDelete ==
    /\ \E id \in AdminIds :
          subscribers_table' = delete_subscriber(subscribers_table, id)
    /\ UNCHANGED <<now, uuid, pc, event, idx, locals, result, apis, hist, shadow>>

\* The well-formed bodies of one sender at one time for one address.
AloneBodies == {body \in PlainBodies : body.data.email = "a@x.com"}

ReceiveAlone(w) == Take(w, Records(w, AloneBodies))

\* Batches for one address handled one after another while the admin API
\* changes and deletes the first subscriber.
NextAdmin ==
    \/ Tick
    \/ \E w \in Sequential : Start(w)
    \/ \E w \in Sequential : ReceiveAlone(w)
    \/ \E w \in Sequential : Query(w)
    \/ \E w \in Sequential : Apply(w)
    \/ \E w \in Sequential : Return(w)
    \/ AdminUpdate
    \/ AdminDelete

SpecAdmin == Init /\ [][NextAdmin]_vars

\* PATCH /v1/newsletter/admin/subscribers/<subscriber_id> with any address,
\* those that subscribers have among them.
AdminUpdateAny ==
    /\ \E id \in AdminIds, new_email \in Emails \cup AdminEmails :
          subscribers_table' = update_subscriber_email(subscribers_table, id, new_email, now)
    /\ UNCHANGED <<now, uuid, pc, event, idx, locals, result, apis, hist, shadow>>

\* Batches for two addresses handled one after another while the admin
\* changes the first subscriber's address to any address and deletes the
\* first subscriber, within one second of the clock.
NextShared ==
    \/ \E w \in Sequential : Start(w)
    \/ \E w \in Sequential : ReceivePlain(w)
    \/ \E w \in Sequential : Query(w)
    \/ \E w \in Sequential : ApplyConcurrent(w)
    \/ \E w \in Sequential : Return(w)
    \/ AdminUpdateAny
    \/ AdminDelete

SpecShared == Init /\ [][NextShared]_vars

\* JSON bodies of PATCH /v1/newsletter/admin/subscribers/<subscriber_id>.
UpdateBodies == {[email |-> e] : e \in AdminEmails \cup {"not-an-email"}}

\* UpdateSubscriberRequest(**body)
UpdateSubscriberRequest(body) ==
    "email" \in DOMAIN body /\ NormalizeEmail(body.email) \in Emails \cup AdminEmails

\* The status the handlers answer with for what the call into
\* handlers/subscribers.py gave: 500 when it raised, 404 when it found no
\* subscriber, 200 otherwise.
StatusFor(found) ==
    IF found = Raised THEN 500 ELSE IF found = None THEN 404 ELSE 200

\* handle_update_subscriber: the handler of PATCH
\* /v1/newsletter/admin/subscribers/<subscriber_id>, with the Subscriber it
\* returns made of the item as updated.
handle_update_subscriber ==
    /\ \E id \in AdminIds, body \in UpdateBodies :
          LET request == [route |-> "PATCH /v1/newsletter/admin/subscribers/<subscriber_id>",
                          subscriber_id |-> id, body |-> body]
              found == get_subscriber_by_id(subscribers_table, id)
              new_email == NormalizeEmail(body.email)
          IN  IF ~UpdateSubscriberRequest(body)
              THEN /\ response' = [request |-> request, status |-> 400]
                   /\ UNCHANGED subscribers_table
              ELSE /\ subscribers_table' =
                         update_subscriber_email(subscribers_table, id, new_email, now)
                   /\ response' =
                         IF StatusFor(found) = 200
                         THEN [request |-> request, status |-> 200,
                               data |-> get_subscriber_by_id(subscribers_table', id)]
                         ELSE [request |-> request, status |-> StatusFor(found)]
    /\ UNCHANGED <<now, uuid, pc, event, idx, locals, result, queue, hist, shadow>>

\* handle_delete_subscriber: the handler of DELETE
\* /v1/newsletter/admin/subscribers/<subscriber_id>.
handle_delete_subscriber ==
    /\ \E id \in AdminIds :
          LET request == [route |-> "DELETE /v1/newsletter/admin/subscribers/<subscriber_id>",
                          subscriber_id |-> id]
              found == get_subscriber_by_id(subscribers_table, id)
          IN  /\ subscribers_table' = delete_subscriber(subscribers_table, id)
              /\ response' = [request |-> request, status |-> StatusFor(found)]
    /\ UNCHANGED <<now, uuid, pc, event, idx, locals, result, queue, hist, shadow>>

\* ------------------------------------------------------ admin API: listing

\* Text is a sequence of character codes. These are the texts of the
\* attribute names and status values that occur in a key of the table or of
\* status-index.
Chars ==
    [id |-> <<105, 100>>,
     status |-> <<115, 116, 97, 116, 117, 115>>,
     active |-> <<97, 99, 116, 105, 118, 101>>,
     inactive |-> <<105, 110, 97, 99, 116, 105, 118, 101>>]

\* The text of an id: the ids of the model are single digits.
IdText(id) == <<48 + id>>

\* A key as boto3 hands it over: a dict from attribute names to values, here
\* the sequence of its (name, value) pairs, all of them text.
TableKey(item) == << <<Chars.id, IdText(item.id)>> >>
IndexKey(item) == << <<Chars.status, Chars[item.status]>>, <<Chars.id, IdText(item.id)>> >>

\* The key of an item in the table (index = NULL) or in status-index, and
\* the names of its attributes.
KeyIn(index, item) == IF index = NULL THEN TableKey(item) ELSE IndexKey(item)
KeyNames(index) == IF index = NULL THEN {Chars.id} ELSE {Chars.status, Chars.id}

\* The value a dict holds under a name.
Lookup(dict, name) ==
    LET i == CHOOSE i \in 1..Len(dict) : dict[i][1] = name IN dict[i][2]

Names(dict) == {dict[i][1] : i \in 1..Len(dict)}

\* json.dumps of a dict of strings: {"name": "value", "name": "value"}
Quoted(text) == <<34>> \o text \o <<34>>

RECURSIVE Members(_)
Members(dict) ==
    IF dict = <<>> THEN <<>>
    ELSE Quoted(dict[1][1]) \o <<58, 32>> \o Quoted(dict[1][2])
         \o (IF Len(dict) = 1 THEN <<>> ELSE <<44, 32>> \o Members(Tail(dict)))

json_dumps(dict) == <<123>> \o Members(dict) \o <<125>>

\* The characters of base64 are written as their values 0..63, '=' as 64.
Pad == 64

\* base64.b64encode: three bytes make four characters.
RECURSIVE b64encode(_)
b64encode(bytes) ==
    IF bytes = <<>> THEN <<>>
    ELSE IF Len(bytes) = 1
    THEN <<bytes[1] \div 4, (bytes[1] % 4) * 16, Pad, Pad>>
    ELSE IF Len(bytes) = 2
    THEN <<bytes[1] \div 4, (bytes[1] % 4) * 16 + bytes[2] \div 16,
           (bytes[2] % 16) * 4, Pad>>
    ELSE <<bytes[1] \div 4, (bytes[1] % 4) * 16 + bytes[2] \div 16,
           (bytes[2] % 16) * 4 + bytes[3] \div 64, bytes[3] % 64>>
         \o b64encode(SubSeq(bytes, 4, Len(bytes)))

\* base64.b64decode: four characters make three bytes, fewer where the last
\* group is padded; binascii.Error on a length that is no multiple of four
\* and on padding anywhere else.
RECURSIVE b64decode(_)
b64decode(token) ==
    IF token = <<>> THEN [text |-> <<>>]
    ELSE IF Len(token) < 4 \/ token[1] = Pad \/ token[2] = Pad THEN Raised
    ELSE LET b1 == token[1] * 4 + token[2] \div 16
             b2 == (token[2] % 16) * 16 + token[3] \div 4
             b3 == (token[3] % 4) * 64 + token[4]
         IN  IF token[3] = Pad
             THEN IF token[4] = Pad /\ Len(token) = 4 THEN [text |-> <<b1>>] ELSE Raised
             ELSE IF token[4] = Pad
             THEN IF Len(token) = 4 THEN [text |-> <<b1, b2>>] ELSE Raised
             ELSE LET rest == b64decode(SubSeq(token, 5, Len(token)))
                  IN  IF rest = Raised THEN Raised
                      ELSE [text |-> <<b1, b2, b3>> \o rest.text]

\* The string literal that starts at position i of a text, and the position
\* after it.
StringAt(text, i) ==
    IF i <= Len(text) /\ text[i] = 34 /\ \E j \in (i + 1)..Len(text) : text[j] = 34
    THEN LET j == CHOOSE j \in (i + 1)..Len(text) :
                     text[j] = 34 /\ \A k \in (i + 1)..(j - 1) : text[k] # 34
         IN  [text |-> SubSeq(text, i + 1, j - 1), next |-> j + 1]
    ELSE Raised

\* The position of the first character that is not a blank, from i on.
RECURSIVE Skip(_, _)
Skip(text, i) == IF i <= Len(text) /\ text[i] = 32 THEN Skip(text, i + 1) ELSE i

\* The members of an object from position i to the closing brace, which is
\* the last character of the text.
RECURSIVE MembersAt(_, _)
MembersAt(text, i) ==
    LET name == StringAt(text, Skip(text, i)) IN
    IF name = Raised THEN Raised
    ELSE LET colon == Skip(text, name.next) IN
         IF colon > Len(text) \/ text[colon] # 58 THEN Raised
         ELSE LET value == StringAt(text, Skip(text, colon + 1)) IN
              IF value = Raised THEN Raised
              ELSE LET after == Skip(text, value.next) IN
                   IF after = Len(text) /\ text[after] = 125
                   THEN [dict |-> << <<name.text, value.text>> >>]
                   ELSE IF after < Len(text) /\ text[after] = 44
                   THEN LET rest == MembersAt(text, after + 1) IN
                        IF rest = Raised THEN Raised
                        ELSE [dict |-> << <<name.text, value.text>> >> \o rest.dict]
                   ELSE Raised

\* json.loads of the text of an object whose values are strings;
\* JSONDecodeError on a text that is none.
json_loads(text) ==
    IF Len(text) < 2 \/ text[1] # 123 THEN Raised
    ELSE IF Skip(text, 2) = Len(text) /\ text[Len(text)] = 125 THEN [dict |-> <<>>]
    ELSE MembersAt(text, 2)

\* The encoding and the decoding of a pagination token.
encode_token(key) == b64encode(json_dumps(key))

decode_token(next_token) ==
    LET bytes == b64decode(next_token) IN
    IF bytes = Raised THEN Raised ELSE json_loads(bytes.text)

\* The order in which the store goes through items: a fixed order of the
\* keys, here that of the ids.
RECURSIVE InKeyOrder(_)
InKeyOrder(items) ==
    IF items = {} THEN <<>>
    ELSE LET first == CHOOSE it \in items : \A other \in items : it.id <= other.id
         IN  <<first>> \o InKeyOrder(items \ {first})

\* The id a start key points at; the store refuses a key of another shape.
StartId(names, key) ==
    IF key = <<>> THEN 0
    ELSE IF Names(key) = names /\ Len(key) = Cardinality(names)
            /\ \E id \in 0..9 : IdText(id) = Lookup(key, Chars.id)
    THEN CHOOSE id \in 0..9 : IdText(id) = Lookup(key, Chars.id)
    ELSE -1

\* What the store answers when it goes through the given items with a Limit
\* from after ExclusiveStartKey: it stops once it has evaluated Limit items
\* and then names the last of them as LastEvaluatedKey.
Page(items, index, limit, start_key) ==
    IF StartId(KeyNames(index), start_key) < 0 THEN Raised
    ELSE LET rest == InKeyOrder({it \in items :
                                   it.id > StartId(KeyNames(index), start_key)})
             n == Min(limit, Len(rest))
         IN  IF n = limit
             THEN [Items |-> SubSeq(rest, 1, n), LastEvaluatedKey |-> KeyIn(index, rest[n])]
             ELSE [Items |-> SubSeq(rest, 1, n)]

\* subscribers_table.scan(Limit=, ExclusiveStartKey=)
Scan(tbl, limit, start_key) == Page(tbl, NULL, limit, start_key)

\* subscribers_table.query(IndexName='status-index', ...): the index holds
\* the items that have a status.
QueryStatusIndex(tbl, status, limit, start_key) ==
    IF start_key # <<>> /\ Chars.status \in Names(start_key)
       /\ Lookup(start_key, Chars.status) # Chars[status]
    THEN Raised
    ELSE Page({it \in tbl : "status" \in DOMAIN it /\ it.status = status},
              "status-index", limit, start_key)

\* list.sort(key=lambda x: x.subscribed_at, reverse=True): most recent
\* first, subscribers of one time in the order they came in.
RECURSIVE SortedBySubscribedAt(_)
SortedBySubscribedAt(subscribers) ==
    IF subscribers = <<>> THEN <<>>
    ELSE LET rest == SortedBySubscribedAt(Tail(subscribers))
             head == Head(subscribers)
             before == SelectSeq(rest, LAMBDA x : x.subscribed_at > head.subscribed_at)
             after == SelectSeq(rest, LAMBDA x : x.subscribed_at <= head.subscribed_at)
         IN  before \o <<head>> \o after

\* ValueError("Invalid pagination token")
Invalid == [invalid |-> TRUE]

\* list_subscribers: a page of the table, or of the subscribers of one
\* status, with the token for the next one.
list_subscribers(tbl, limit, next_token, status) ==
    LET start_key == IF next_token = <<>> THEN [dict |-> <<>>] ELSE decode_token(next_token) IN
    IF start_key = Raised THEN Invalid
    ELSE LET answer == IF status # NULL
                       THEN QueryStatusIndex(tbl, status, limit, start_key.dict)
                       ELSE Scan(tbl, limit, start_key.dict)
         IN  IF answer = Raised THEN Raised
             ELSE IF \E i \in 1..Len(answer.Items) : item_to_subscriber(answer.Items[i]) = Raised
             THEN Raised
             ELSE LET subscribers == SortedBySubscribedAt(
                                       [i \in 1..Len(answer.Items) |->
                                          item_to_subscriber(answer.Items[i])])
                  IN  IF "LastEvaluatedKey" \in DOMAIN answer
                      THEN [subscribers |-> subscribers,
                            next_token |-> encode_token(answer.LastEvaluatedKey),
                            count |-> Len(subscribers)]
                      ELSE [subscribers |-> subscribers, count |-> Len(subscribers)]

\* The limits asked for, 0 being one the query parameters do not admit.
Limits == {0, 1, 2}

\* Tokens that no page came with: text that is not base64, and base64 of
\* text that is not JSON.
OddTokens == {<<0>>, b64encode(<<123>>)}

\* SubscriberListQueryParams(limit=, next_token=, status=)
SubscriberListQueryParams(limit, status) ==
    limit \in 1..100 /\ status \in {NULL, "active", "inactive"}

ListRoute == "GET /v1/newsletter/admin/subscribers"

\* The token of the page last answered, for a request with the same filter.
TokenAtHand(status) ==
    IF /\ response.request.route = ListRoute
       /\ response.status = 200
       /\ response.request.status = status
       /\ "next_token" \in DOMAIN response.data
    THEN {response.data.next_token}
    ELSE {}

\* handle_list_subscribers: the handler of GET /v1/newsletter/admin/subscribers,
\* asked for a first page, for the page after the one last answered, or
\* with a token of its own making.
handle_list_subscribers ==
    /\ \E limit \in Limits, status \in {NULL, "active", "inactive"} :
       \E next_token \in {<<>>} \cup OddTokens \cup TokenAtHand(status) :
          LET request == [route |-> ListRoute, limit |-> limit,
                          next_token |-> next_token, status |-> status]
              listed == list_subscribers(subscribers_table, limit, next_token, status)
          IN  response' =
                 IF ~SubscriberListQueryParams(limit, status) \/ listed = Invalid
                 THEN [request |-> request, status |-> 400]
                 ELSE IF listed = Raised
                 THEN [request |-> request, status |-> 500]
                 ELSE [request |-> request, status |-> 200, data |-> listed]
    /\ UNCHANGED <<subscribers_table, now, uuid, pc, event, idx, locals, result, queue,
                   hist, shadow>>

\* Batches for one address handled one after another while the admin changes
\* and deletes the first subscriber and lists the subscribers.
NextList ==
    \/ \E w \in Sequential : Start(w)
    \/ \E w \in Sequential : ReceiveAlone(w)
    \/ \E w \in Sequential : Query(w)
    \/ \E w \in Sequential : ApplyConcurrent(w)
    \/ \E w \in Sequential : Return(w)
    \/ AdminUpdate
    \/ AdminDelete
    \/ handle_list_subscribers

SpecList == Init /\ [][NextList]_vars

\* Batches for one address handled one after another while the admin API
\* answers requests to change and to delete the first subscriber.
NextAdminApi ==
    \/ Tick
    \/ \E w \in Sequential : Start(w)
    \/ \E w \in Sequential : ReceiveAlone(w)
    \/ \E w \in Sequential : Query(w)
    \/ \E w \in Sequential : ApplyConcurrent(w)
    \/ \E w \in Sequential : Return(w)
    \/ handle_update_subscriber
    \/ handle_delete_subscriber

SpecAdminApi == Init /\ [][NextAdminApi]_vars

\* ---------------------------------------------------- admin API: stats

\* The number of items after which a scan with no Limit stops (the store's
\* 1 MB of data per answer).
ScanCapacity == 1

\* get_stats' scan loop: the items of the first answer, extended by those of
\* every answer asked for with the LastEvaluatedKey of the one before.
RECURSIVE ScanAll(_, _)
ScanAll(tbl, start_key) ==
    LET answer == Scan(tbl, ScanCapacity, start_key) IN
    IF "LastEvaluatedKey" \in DOMAIN answer
    THEN answer.Items \o ScanAll(tbl, answer.LastEvaluatedKey)
    ELSE answer.Items

\* The statistics of the items scanned, at a time.
StatsResponse(all_subscribers, current_time) ==
    LET total_subscribers == Len(all_subscribers)
        active_count ==
            Cardinality({i \in 1..Len(all_subscribers) :
                           Get(all_subscribers[i], "status", NULL) = "active"})
        twenty_four_hours_ago == current_time - (24 * 60 * 60)
    IN  [total_subscribers |-> total_subscribers,
         active_count |-> active_count,
         inactive_count |-> total_subscribers - active_count,
         recent_24h |->
            Cardinality({i \in 1..Len(all_subscribers) :
                           Get(all_subscribers[i], "subscribed_at", 0)
                              >= twenty_four_hours_ago})]

\* Statistics of the first answer of the scan alone.
get_stats_first_answer(tbl, current_time) ==
    StatsResponse(Scan(tbl, ScanCapacity, <<>>).Items, current_time)

\* get_stats
get_stats(tbl, current_time) == StatsResponse(ScanAll(tbl, <<>>), current_time)

\* handle_get_stats: the handler of GET /v1/newsletter/admin/stats.
handle_get_stats ==
    /\ response' = [request |-> [route |-> "GET /v1/newsletter/admin/stats"],
                    status |-> 200,
                    data |-> get_stats(subscribers_table, now)]
    /\ UNCHANGED <<subscribers_table, now, uuid, pc, event, idx, locals, result, queue,
                   hist, shadow>>

\* Batches for one address handled one after another while the admin changes
\* and deletes the first subscriber and asks for the statistics.
NextStats ==
    \/ Tick
    \/ \E w \in Sequential : Start(w)
    \/ \E w \in Sequential : ReceiveAlone(w)
    \/ \E w \in Sequential : Query(w)
    \/ \E w \in Sequential : ApplyConcurrent(w)
    \/ \E w \in Sequential : Return(w)
    \/ AdminUpdate
    \/ AdminDelete
    \/ handle_get_stats

SpecStats == Init /\ [][NextStats]_vars

\* ------------------------------------------------------- a second run

\* The well-formed bodies of one sender, produced at either time.
TwinBodies ==
    {body \in GoodBodies : body.data.name = "A" /\ body.data.email \in Emails}

ReceiveTwin(w) == Take(w, Records(w, TwinBodies))

\* The write, and beside it the write of a second run of the engine on its
\* own table: that run has the same message but for the producer's
\* timestamp, which is any, the same clock value and the same uuid4(), and
\* its lookup is in its own table.
ApplyTwin(w) ==
    /\ Write(w)
    /\ LET m == operation_message[w]
           ts == current_timestamp[w]
       IN  \E t \in Timestamps, found \in query_subscriber_by_email(shadow, m.email) :
              shadow' =
                 IF m.operation = "subscribe"
                 THEN process_subscribe_operation(shadow, found, [m EXCEPT !.timestamp = t],
                                                  ts, uuid + 1)
                 ELSE process_unsubscribe_operation(shadow, found, ts)
    /\ UNCHANGED hist

\* Batches handled one after another, and the same batches with other
\* producer timestamps handled by a second run.
NextTwin ==
    \/ Tick
    \/ \E w \in Sequential : Start(w)
    \/ \E w \in Sequential : ReceiveTwin(w)
    \/ \E w \in Sequential : Query(w)
    \/ \E w \in Sequential : ApplyTwin(w)
    \/ \E w \in Sequential : Return(w)

SpecTwin == Init /\ [][NextTwin]_vars

\* --------------------------------------------- messages of several senders

\* The well-formed bodies for one address, of either sender.
SenderBodies == {body \in TimelyBodies : body.data.email = "a@x.com"}

\* event['Records'] made of them.
SenderEvents ==
    UNION { { [i \in 1..n |-> [receiptHandle |-> i, body |-> f[i]]] :
                f \in [1..n -> SenderBodies] } : n \in 0..MaxRecords }

ArriveSenders(w) == pc[w] = "idle" /\ \E records \in SenderEvents : Invoke(w, records)

\* One batch for one address, its messages sent from different places,
\* while the admin API changes the first subscriber's email.
NextSenders ==
    \/ \E w \in Sequential : ArriveSenders(w)
    \/ \E w \in Sequential : TakeRecord(w)
    \/ \E w \in Sequential : Query(w)
    \/ \E w \in Sequential : ApplyConcurrent(w)
    \/ \E w \in Sequential : ReturnBatch(w)
    \/ AdminUpdate

SpecSenders == Init /\ [][NextSenders]_vars

\* ------------------------------------------------------------ public API

\* requestContext.http of the API Gateway event: where a request came from.
HttpContexts ==
    { [sourceIp |-> "1.1.1.1", userAgent |-> "UA1"],
      [sourceIp |-> "2.2.2.2", userAgent |-> "UA2"] }

\* The addresses public requests name, as typed.
TypedEmails == {"a@x.com", "a@X.COM", "not-an-email"}

\* JSON bodies of POST /v1/newsletter: with an address and a name, without a
\* name, with an empty name.
SubscribeBodies ==
    {[email |-> e, name |-> "A"] : e \in TypedEmails}
       \cup {[email |-> "a@x.com"], [email |-> "a@x.com", name |-> ""]}

\* JSON bodies of DELETE /v1/newsletter.
UnsubscribeBodies == {[email |-> e] : e \in TypedEmails}

PublicRequests ==
    {[route |-> "POST /v1/newsletter", body |-> body, http |-> http] :
        body \in SubscribeBodies, http \in HttpContexts}
    \cup {[route |-> "DELETE /v1/newsletter", body |-> body, http |-> http] :
            body \in UnsubscribeBodies, http \in HttpContexts}

\* GET /v1/newsletter/status with its email query parameter, or without one.
StatusRequests ==
    {[route |-> "GET /v1/newsletter/status", email |-> e] : e \in TypedEmails \cup {NULL}}

\* SubscribeRequest(**body): an address that validates and a name of at
\* least one character.
SubscribeRequest(body) ==
    /\ {"email", "name"} \subseteq DOMAIN body
    /\ ValidEmail(body.email)
    /\ body.name # ""

\* UnsubscribeRequest(**body)
UnsubscribeRequest(body) == "email" \in DOMAIN body /\ ValidEmail(body.email)

extract_request_metadata(http) ==
    [ip_address |-> Get(http, "sourceIp", "unknown"),
     user_agent |-> Get(http, "userAgent", "unknown")]

\* A message that says where the API was reached from in place of where the
\* request came from.
message_unsourced(operation, email, name, metadata, ts) ==
    [json |-> TRUE,
     data |-> Payload(operation, email, <<name, "unknown", "unknown">>, ts)]

\* The message send_operation_to_queue builds, as json.dumps writes it and
\* json.loads reads it.
message(operation, email, name, metadata, ts) ==
    [json |-> TRUE,
     data |-> Payload(operation, email,
                      <<name, metadata.ip_address, metadata.user_agent>>, ts)]

\* sqs.send_message answers 200: the message is in the queue.
send_operation_to_queue(operation, email, name, metadata) ==
    /\ Len(queue) < MaxQueue
    /\ queue' = Append(queue, message(operation, email, name, metadata, now))

\* handle_subscribe, for one of requests.
Subscribe(requests) ==
    /\ \E request \in requests :
          /\ request.route = "POST /v1/newsletter"
          /\ IF SubscribeRequest(request.body)
             THEN /\ send_operation_to_queue("subscribe", NormalizeEmail(request.body.email),
                                             request.body.name,
                                             extract_request_metadata(request.http))
                  /\ response' = [request |-> request, status |-> 200]
             ELSE /\ response' = [request |-> request, status |-> 400]
                  /\ UNCHANGED queue
    /\ UNCHANGED <<subscribers_table, now, uuid, pc, event, idx, locals, result, hist, shadow>>

\* POST /v1/newsletter
handle_subscribe == Subscribe(PublicRequests)

\* handle_unsubscribe, for one of requests.
Unsubscribe(requests) ==
    /\ \E request \in requests :
          /\ request.route = "DELETE /v1/newsletter"
          /\ IF UnsubscribeRequest(request.body)
             THEN /\ send_operation_to_queue("unsubscribe", NormalizeEmail(request.body.email),
                                             NULL, extract_request_metadata(request.http))
                  /\ response' = [request |-> request, status |-> 200]
             ELSE /\ response' = [request |-> request, status |-> 400]
                  /\ UNCHANGED queue
    /\ UNCHANGED <<subscribers_table, now, uuid, pc, event, idx, locals, result, hist, shadow>>

\* DELETE /v1/newsletter
handle_unsubscribe == Unsubscribe(PublicRequests)

\* A failed send reported as a success.
InternalServerErrorHidden(request) == [request |-> request, status |-> 200]

\* except Exception: 'Internal server error'.
InternalServerError(request) == [request |-> request, status |-> 500]

\* sqs.send_message raises or answers with another status than 200, before
\* the queue took the message or after it did.
send_operation_fails(operation, email, name, metadata) ==
    \/ UNCHANGED queue
    \/ /\ Len(queue) < MaxQueue
       /\ queue' = Append(queue, message(operation, email, name, metadata, now))

\* handle_subscribe, for one of requests that validates and whose send fails.
SubscribeFails(requests) ==
    /\ \E request \in requests :
          /\ request.route = "POST /v1/newsletter"
          /\ SubscribeRequest(request.body)
          /\ send_operation_fails("subscribe", NormalizeEmail(request.body.email),
                                  request.body.name,
                                  extract_request_metadata(request.http))
          /\ response' = InternalServerError(request)
    /\ UNCHANGED <<subscribers_table, now, uuid, pc, event, idx, locals, result, hist, shadow>>

\* handle_unsubscribe, for one of requests that validates and whose send
\* fails.
UnsubscribeFails(requests) ==
    /\ \E request \in requests :
          /\ request.route = "DELETE /v1/newsletter"
          /\ UnsubscribeRequest(request.body)
          /\ send_operation_fails("unsubscribe", NormalizeEmail(request.body.email),
                                  NULL, extract_request_metadata(request.http))
          /\ response' = InternalServerError(request)
    /\ UNCHANGED <<subscribers_table, now, uuid, pc, event, idx, locals, result, hist, shadow>>

\* The query of handle_status: the email-index under the address as typed.
status_lookup(tbl, email) == ByEmail(tbl, email)

\* StatusResponse, a field that is None left out.
StatusResponse(email, items) ==
    IF items = {}
    THEN {[email |-> email, status |-> "not_found"]}
    ELSE {[email |-> email,
           status |-> Get(subscriber, "status", "unknown"),
           subscribed_at |-> subscriber.subscribed_at,
           updated_at |-> subscriber.updated_at] : subscriber \in items}

\* GET /v1/newsletter/status
handle_status ==
    /\ \E request \in StatusRequests :
          IF request.email = NULL \/ ~ValidEmail(request.email)
          THEN response' = [request |-> request, status |-> 400]
          ELSE \E body \in StatusResponse(request.email,
                                          status_lookup(subscribers_table, request.email)) :
                  response' = [request |-> request, status |-> 200, body |-> body]
    /\ UNCHANGED <<subscribers_table, now, uuid, pc, event, idx, locals, result,
                   queue, hist, shadow>>

\* The queue hands the handler the messages at its head, up to MaxRecords
\* of them; they stay in the queue until they are acknowledged.
Poll(w) ==
    /\ pc[w] = "idle"
    /\ \E n \in 1..Min(Len(queue), MaxRecords) :
          Invoke(w, [i \in 1..n |-> [receiptHandle |-> i, body |-> queue[i]]])

\* What the queue-acknowledgment collaborator makes of the result once the
\* handler has returned: the records whose handles failed_messages names
\* stay in the queue, to be delivered again; the others leave it.
Acknowledge(w) ==
    /\ pc[w] = "done"
    /\ queue' = [i \in 1..Len(Unacknowledged(w)) |-> Unacknowledged(w)[i].body]
                   \o SubSeq(queue, Len(event[w]) + 1, Len(queue))
    /\ pc' = [pc EXCEPT ![w] = "idle"]
    /\ event' = [event EXCEPT ![w] = <<>>]
    /\ idx' = [idx EXCEPT ![w] = 0]
    /\ processed_count' = [processed_count EXCEPT ![w] = 0]
    /\ failed_count' = [failed_count EXCEPT ![w] = 0]
    /\ failed_messages' = [failed_messages EXCEPT ![w] = <<>>]
    /\ UNCHANGED <<subscribers_table, now, uuid, locals, response, hist, shadow>>

\* A table call of the handler raises.
StoreFails(w) == QueryFails(w) \/ WriteFails(w)

\* The public API, the queue and the processor behind it, with table calls
\* that may fail, within one second of the clock.
NextPublic ==
    \/ handle_subscribe
    \/ handle_unsubscribe
    \/ handle_status
    \/ \E w \in Sequential : Poll(w)
    \/ \E w \in Sequential : TakeRecord(w)
    \/ \E w \in Sequential : Query(w)
    \/ \E w \in Sequential : QueryFails(w)
    \/ \E w \in Sequential : ApplyConcurrent(w)
    \/ \E w \in Sequential : WriteFails(w)
    \/ \E w \in Sequential : ReturnBatch(w)
    \/ \E w \in Sequential : Acknowledge(w)

SpecPublic == Init /\ [][NextPublic]_vars

\* The intake requests of one place that name a@x.com as it is stored.
NearRequests ==
    {request \in PublicRequests :
        request.http.sourceIp = "1.1.1.1" /\ request.body.email = "a@x.com"}

\* The queue and the processor behind it, with table calls that succeed.
Drain ==
    \/ \E w \in Sequential : Poll(w)
    \/ \E w \in Sequential : TakeRecord(w)
    \/ \E w \in Sequential : Query(w)
    \/ \E w \in Sequential : ApplyConcurrent(w)
    \/ \E w \in Sequential : ReturnBatch(w)
    \/ \E w \in Sequential : Acknowledge(w)

\* Intake from one place whose sends may fail, and the queue drained behind
\* it.
NextEnqueue ==
    \/ Subscribe(NearRequests)
    \/ Unsubscribe(NearRequests)
    \/ SubscribeFails(NearRequests)
    \/ UnsubscribeFails(NearRequests)
    \/ Drain

SpecEnqueue == Init /\ [][NextEnqueue]_vars

\* Intake from one place, the queue and the processor behind it.
NextIntake ==
    \/ Subscribe(NearRequests)
    \/ Unsubscribe(NearRequests)
    \/ \E w \in Sequential : Poll(w)
    \/ \E w \in Sequential : TakeRecord(w)
    \/ \E w \in Sequential : Query(w)
    \/ \E w \in Sequential : QueryFails(w)
    \/ \E w \in Sequential : ApplyConcurrent(w)
    \/ \E w \in Sequential : WriteFails(w)
    \/ \E w \in Sequential : ReturnBatch(w)
    \/ \E w \in Sequential : Acknowledge(w)

\* That, with a queue that goes on delivering, a handler that goes on
\* running once invoked, a collaborator that goes on acknowledging, and a
\* table whose calls, from some point on, no longer fail.
SpecIntakeFair ==
    /\ Init /\ [][NextIntake]_vars
    /\ \A w \in Sequential :
          /\ WF_vars(Poll(w))
          /\ WF_vars(Step(w))
          /\ WF_vars(Acknowledge(w))
          /\ <>[][~StoreFails(w)]_vars

\* ------------------------------------------------------------------ claims

\* The one record of an address that has exactly one.
TheRecord(tbl, e) == CHOOSE it \in ByEmail(tbl, e) : TRUE

\* tbl with record r replaced by record q.
Replaced(tbl, r, q) == (tbl \ {r}) \cup {q}

\* Invocation w takes the step that applies the message it holds.
Applies(w) == pc[w] = "apply" /\ pc'[w] = "loop"

\* It applies operation op to an address that is in state st.
AppliesTo(w, op, st) ==
    /\ Applies(w)
    /\ operation_message[w].operation = op
    /\ StateOf(subscribers_table, operation_message[w].email) = st

\* The message is counted as processed and not as failed.
CountedProcessed(w) ==
    /\ processed_count'[w] = processed_count[w] + 1
    /\ failed_count'[w] = failed_count[w]
    /\ failed_messages'[w] = failed_messages[w]

\* C1: with batches handled one after another from an empty table, redeliveries
\* included, the table never holds two records with the same email.
C1_OneRecordPerEmail ==
    \A r, q \in subscribers_table :
        ("email" \in DOMAIN r /\ "email" \in DOMAIN q /\ r.email = q.email) => r = q

\* C1 witness: a redelivery was applied and every address has its record.
C1_Witness ==
    /\ hist.n >= 2
    /\ \A e \in Emails : Cardinality(ByEmail(subscribers_table, e)) = 1

\* C2: with invocations running side by side, two subscribes for an Absent
\* address never both look it up before either writes and then both create a
\* record: no address ever has more than one record.
C2_Serialized ==
    \A e \in Emails : Cardinality(ByEmail(subscribers_table, e)) <= 1

\* C3: after a run of N >= 1 subscribes for an address that was Absent (the
\* same subscribe intent replayed N times is such a run), the address has
\* exactly one record, its status is active, its subscribed_at is the clock
\* value read for the first application and its updated_at the one read for
\* the last.
C3_ReplayedSubscribe ==
    (hist.operation = "subscribe" /\ hist.start = "Absent" /\ hist.n >= 1) =>
        /\ Cardinality(ByEmail(subscribers_table, hist.email)) = 1
        /\ LET r == TheRecord(subscribers_table, hist.email) IN
               /\ r.status = "active"
               /\ r.subscribed_at = hist.first
               /\ r.updated_at = hist.last

\* C3 witness: three applications in a row, the last at a later clock value
\* than the first.
C3_Witness ==
    /\ hist.operation = "subscribe" /\ hist.start = "Absent" /\ hist.n >= 3
    /\ hist.first < hist.last
    /\ \E r \in ByEmail(subscribers_table, hist.email) : r.subscribed_at < r.updated_at

C5_Reactivation ==
    [][\A w \in Workers :
          AppliesTo(w, "subscribe", "Inactive")
             => LET r == TheRecord(subscribers_table, operation_message[w].email) IN
                subscribers_table' =
                   Replaced(subscribers_table, r,
                            [r EXCEPT !.status = "active",
                                      !.updated_at = current_timestamp[w]])]_vars

\* C5 witness: a subscribe was applied to an Inactive address, which is now
\* Active with a later updated_at than subscribed_at.
C5_Witness ==
    /\ hist.operation = "subscribe" /\ hist.start = "Inactive" /\ hist.n = 1
    /\ \E r \in ByEmail(subscribers_table, hist.email) :
          r.status = "active" /\ r.subscribed_at < r.updated_at

\* C6: a subscribe for an Active address changes its record's updated_at to
\* the clock value read for the message and nothing else: status, id, email,
\* name, subscribed_at, ip_address and user_agent stay, no record is made.
C6_TouchOnly ==
    [][\A w \in Workers :
          AppliesTo(w, "subscribe", "Active")
             => LET r == TheRecord(subscribers_table, operation_message[w].email) IN
                subscribers_table' =
                   Replaced(subscribers_table, r,
                            [r EXCEPT !.updated_at = current_timestamp[w]])]_vars

\* C6 witness: a subscribe was applied to an Active address at a later clock
\* value than its creation.
C6_Witness ==
    /\ hist.operation = "subscribe" /\ hist.start = "Active"
    /\ \E r \in ByEmail(subscribers_table, hist.email) :
          r.status = "active" /\ r.subscribed_at < r.updated_at

\* C7: an unsubscribe for an Active address changes its record's status to
\* inactive and its updated_at to the clock value read for the message, and
\* nothing else; no record is made or removed.
C7_Deactivation ==
    [][\A w \in Workers :
          AppliesTo(w, "unsubscribe", "Active")
             => LET r == TheRecord(subscribers_table, operation_message[w].email) IN
                subscribers_table' =
                   Replaced(subscribers_table, r,
                            [r EXCEPT !.status = "inactive",
                                      !.updated_at = current_timestamp[w]])]_vars

\* C7 witness: an unsubscribe was applied to an Active address, which is now
\* Inactive, beside the other address's record.
C7_Witness ==
    /\ hist.operation = "unsubscribe" /\ hist.start = "Active" /\ hist.n = 1
    /\ StateOf(subscribers_table, hist.email) = "Inactive"
    /\ Cardinality(subscribers_table) = 2

\* C8: a subscribe for an Absent address adds exactly one record: its id is
\* none of the table's, its email and name are the message's, its status is
\* active, its subscribed_at and updated_at are the clock value read for the
\* message, its ip_address and user_agent are the message's.
C8_Creation ==
    [][\A w \in Workers :
          AppliesTo(w, "subscribe", "Absent")
             => \E id \in 1..MaxIds :
                   /\ \A it \in subscribers_table : it.id # id
                   /\ subscribers_table' = subscribers_table \cup
                         {[id |-> id,
                           email |-> operation_message[w].email,
                           name |-> operation_message[w].name,
                           status |-> "active",
                           subscribed_at |-> current_timestamp[w],
                           updated_at |-> current_timestamp[w],
                           ip_address |-> operation_message[w].ip_address,
                           user_agent |-> operation_message[w].user_agent]}]_vars

\* C8 witness: a subscribe was applied to an Absent address, beside the
\* record of the other address.
C8_Witness ==
    /\ hist.operation = "subscribe" /\ hist.start = "Absent" /\ hist.n = 1
    /\ Cardinality(subscribers_table) = 2
    /\ \E r \in ByEmail(subscribers_table, hist.email) : r.subscribed_at = now /\ now > 1

\* C9: when unsubscribes for an Absent address are followed by subscribes for
\* it, the address is Active; when subscribes for an Absent address are
\* followed by unsubscribes for it, the address is Inactive; either way it
\* has exactly one record.
C9_Convergence ==
    /\ (hist.prev = "unsubscribe" /\ hist.operation = "subscribe")
          => /\ StateOf(subscribers_table, hist.email) = "Active"
             /\ Cardinality(ByEmail(subscribers_table, hist.email)) = 1
    /\ (hist.prev = "subscribe" /\ hist.operation = "unsubscribe")
          => /\ StateOf(subscribers_table, hist.email) = "Inactive"
             /\ Cardinality(ByEmail(subscribers_table, hist.email)) = 1

\* C9 witness: one subscribe for an Absent address, then one unsubscribe.
C9_Witness ==
    /\ hist.prev = "subscribe" /\ hist.operation = "unsubscribe" /\ hist.n = 1
    /\ uuid = 1

\* What redelivery must leave alone: id, email, status, subscribed_at.
Kept(tbl) ==
    {[id |-> it.id, email |-> it.email, status |-> it.status,
      subscribed_at |-> it.subscribed_at] : it \in tbl}

\* C10: whatever the state of the address, applying an operation to it again
\* right after that operation was applied to it (a redelivery of the intent)
\* leaves the records' id, email, status and subscribed_at as they were: k >= 2
\* deliveries in a row leave what one delivery leaves.
C10_Redelivery ==
    [][\A w \in Workers :
          (Applies(w) /\ Continues(hist, operation_message[w]))
             => Kept(subscribers_table') = Kept(subscribers_table)]_vars

\* C10 witness: an unsubscribe for an Active address was delivered three times.
C10_Witness ==
    /\ hist.operation = "unsubscribe" /\ hist.start = "Active" /\ hist.n >= 3
    /\ StateOf(subscribers_table, hist.email) = "Inactive"

\* -------------------------------------------------- claims: error handling

\* The body fails json.loads or OperationMessage(**message_data).
Malformed(body) == ~body.json \/ ~Validates(body.data)

\* The body passes both and names an operation the dispatch does not know.
UnknownOp(body) ==
    /\ ~Malformed(body)
    /\ OperationMessage(body.data).operation \notin {"subscribe", "unsubscribe"}

WellFormed(body) == ~Malformed(body) /\ ~UnknownOp(body)

\* Invocation w takes the next record of its event.
Takes(w) == pc[w] = "loop" /\ idx'[w] = idx[w] + 1

\* The record it takes, and the record it has in hand.
NextRecord(w) == event[w][idx[w] + 1]
ThisRecord(w) == event[w][idx[w]]

\* Invocation w counts a message as failed.
CountsFailed(w) ==
    /\ failed_count'[w] = failed_count[w] + 1
    /\ processed_count'[w] = processed_count[w]

\* Invocation w returns.
Returns(w) == pc[w] # "done" /\ pc'[w] = "done"

\* The state the lifecycle gives an address that was in state st when
\* operation op is applied to it.
After(op, st) ==
    IF op = "subscribe" THEN "Active"
    ELSE IF st = "Absent" THEN "Absent" ELSE "Inactive"

\* No table call of the batch so far has failed.
NoStoreError(w) ==
    \A i \in 1..Len(failed_messages[w]) : failed_messages[w][i].error # "ClientError"

\* C11: a message that fails (malformed, unknown operation, table call that
\* raised) leaves the handler in its loop; the handler returns only when it
\* has taken every record of the event, each counted as processed or as
\* failed; a well-formed message whose table calls succeed is applied (its
\* address gets the state the lifecycle gives it) and counted as processed;
\* and a batch of 3 whose 2nd body is not JSON, the others well-formed and
\* their table calls succeeding, returns processed = 2 and failed = 1.
C11_BatchIsolation ==
    [][\A w \in Sequential :
          /\ failed_count'[w] = failed_count[w] + 1 => pc'[w] = "loop"
          /\ Returns(w) =>
                /\ idx[w] = Len(event[w])
                /\ processed_count[w] + failed_count[w] = Len(event[w])
          /\ (Applies(w) /\ failed_count'[w] = failed_count[w]) =>
                /\ processed_count'[w] = processed_count[w] + 1
                /\ StateOf(subscribers_table', operation_message[w].email) =
                      After(operation_message[w].operation,
                            StateOf(subscribers_table, operation_message[w].email))
          /\ processed_count'[w] = processed_count[w] + 1 => Applies(w)
          /\ (/\ Returns(w)
              /\ Len(event[w]) = 3
              /\ WellFormed(event[w][1].body)
              /\ ~event[w][2].body.json
              /\ WellFormed(event[w][3].body)
              /\ NoStoreError(w))
             => (processed_count[w] = 2 /\ failed_count[w] = 1)]_vars

\* C11 witness: the handler has returned processed = 2, failed = 1 for a batch
\* of 3 whose 2nd body is not JSON, and the table holds the records the 1st
\* and the 3rd made.
C11_Witness ==
    /\ pc[1] = "done"
    /\ Len(event[1]) = 3
    /\ ~event[1][2].body.json
    /\ processed_count[1] = 2 /\ failed_count[1] = 1
    /\ StateOf(subscribers_table, "a@x.com") = "Active"
    /\ StateOf(subscribers_table, "b@x.com") = "Active"

\* C12: whatever the batch and whichever table calls fail, the handler never
\* ends in an error, and once it is in its loop it returns: it reaches the
\* return statement with counters that say what became of every record.
C12_AlwaysReturns ==
    /\ [](\A w \in Sequential : pc[w] \in {"idle", "loop", "query", "apply", "done"})
    /\ \A w \in Sequential :
          (pc[w] \in {"loop", "query", "apply"})
             ~> (pc[w] = "done" /\ processed_count[w] + failed_count[w] = Len(event[w]))

\* C12 witness: the handler has returned from a batch with a body that is not
\* JSON, an unknown operation and a table call that raised.
C12_Witness ==
    /\ pc[1] = "done"
    /\ Len(event[1]) = 3
    /\ failed_count[1] = 3
    /\ \E i \in 1..3 : UnknownOp(event[1][i].body)
    /\ \E i \in 1..Len(failed_messages[1]) : failed_messages[1][i].error = "JSONDecodeError"
    /\ \E i \in 1..Len(failed_messages[1]) : failed_messages[1][i].error = "ClientError"

\* C13: when the handler has returned, failed_messages has one entry for each
\* message counted as failed: as many entries as failed_count says, messages
\* failed for an unknown operation included.
C13_FailuresListed ==
    \A w \in Sequential :
        pc[w] = "done" => Len(failed_messages[w]) = failed_count[w]

\* C14: taking a message whose operation is neither subscribe nor unsubscribe
\* counts it as failed and not as processed, leaves the table as it is and
\* begins no table call, and leaves the handler in its loop, which ends only
\* when the remaining records have been taken.
C14_UnknownOperation ==
    [][\A w \in Sequential :
          /\ (Takes(w) /\ UnknownOp(NextRecord(w).body)) =>
                /\ CountsFailed(w)
                /\ subscribers_table' = subscribers_table
                /\ pc'[w] = "loop"
          /\ (Returns(w) /\ \E i \in 1..Len(event[w]) : UnknownOp(event[w][i].body)) =>
                idx[w] = Len(event[w])]_vars

\* C14 witness: a batch of an unknown operation and then a subscribe has been
\* handled: one failed, one processed, the subscribe applied.
C14_Witness ==
    /\ pc[1] = "done"
    /\ Len(event[1]) = 2
    /\ UnknownOp(event[1][1].body)
    /\ failed_count[1] = 1 /\ processed_count[1] = 1
    /\ Cardinality(subscribers_table) = 1

\* C15: taking a message whose body is not JSON, lacks a required field, has
\* a value of the wrong type or an invalid address counts it as failed and
\* not as processed, adds an entry with its handle and the error to
\* failed_messages, leaves the table as it is and begins no table call.
C15_MalformedMessage ==
    [][\A w \in Sequential :
          (Takes(w) /\ Malformed(NextRecord(w).body)) =>
             /\ CountsFailed(w)
             /\ \E error \in {"JSONDecodeError", "ValidationError"} :
                   failed_messages'[w] =
                      Append(failed_messages[w],
                             [receipt_handle |-> NextRecord(w).receiptHandle, error |-> error])
             /\ subscribers_table' = subscribers_table
             /\ pc'[w] = "loop"]_vars

\* The ways this model's bodies are malformed.
FieldMissing(body) == body.json /\ "timestamp" \notin DOMAIN body.data
WrongType(body) ==
    body.json /\ "timestamp" \in DOMAIN body.data /\ body.data.name = JsonNumber
BadAddress(body) ==
    body.json /\ "timestamp" \in DOMAIN body.data /\ body.data.email = "not-an-email"

\* C15 witness: batches of three malformed bodies have been handled, all
\* three listed, the table empty; here one with a wrong type, a field missing
\* and a bad address.
C15_Witness ==
    /\ pc[1] = "done"
    /\ Len(event[1]) = 3
    /\ WrongType(event[1][1].body)
    /\ FieldMissing(event[1][2].body)
    /\ BadAddress(event[1][3].body)
    /\ failed_count[1] = 3 /\ processed_count[1] = 0
    /\ FailedHandles(1) = {1, 2, 3}
    /\ subscribers_table = {}

\* C16: when the lookup or the write of a message raises, the message is
\* counted as failed and not as processed and failed_messages gets an entry
\* with its handle, so that it stays unacknowledged; a message whose calls
\* succeed is counted as processed and not listed, so that it is
\* acknowledged; and the queue delivers again exactly the unacknowledged
\* records.
C16_StoreFailure ==
    [][\A w \in Sequential :
          /\ (QueryFails(w) \/ WriteFails(w)) =>
                /\ CountsFailed(w)
                /\ failed_messages'[w] =
                      Append(failed_messages[w],
                             [receipt_handle |-> ThisRecord(w).receiptHandle,
                              error |-> "ClientError"])
                /\ ThisRecord(w).receiptHandle \in FailedHandles(w)'
          /\ ApplyConcurrent(w) =>
                /\ CountedProcessed(w)
                /\ ThisRecord(w).receiptHandle \notin FailedHandles(w)'
          /\ Returns(w) =>
                \A i \in 1..Len(event[w]) :
                   (WellFormed(event[w][i].body) /\ ~Listed(w, event[w][i]))
                      => \A j \in 1..Len(Unacknowledged(w)) :
                            Unacknowledged(w)[j] # event[w][i]
          /\ Redeliver(w) =>
                /\ \A i \in 1..Len(event[w]) :
                      Listed(w, event[w][i]) <=>
                         \E j \in 1..Len(event'[w]) : event'[w][j] = event[w][i]
                /\ Len(event'[w]) = Cardinality(FailedHandles(w))]_vars

\* C16 witness: of a batch of two subscribes the first was applied and the
\* second met a table call that raised; the second alone was delivered again
\* and has now been applied.
C16_Witness ==
    /\ pc[1] = "done"
    /\ Len(event[1]) = 1
    /\ event[1][1].receiptHandle = 2
    /\ WellFormed(event[1][1].body)
    /\ processed_count[1] = 1 /\ failed_count[1] = 0
    /\ Cardinality(subscribers_table) = 2

\* ------------------------------------------- claims: engine beside the admin

\* The items of tbl under key id (none or one).
ById(tbl, id) == {it \in tbl : it.id = id}

\* Invocation w applies its message to the record its lookup returned.
AppliesToFound(w) == Applies(w) /\ existing_subscriber[w] # None

\* The status the engine's write gives the record its lookup returned
\* (a subscribe for a record seen active writes none).
StatusWritten(w) ==
    IF operation_message[w].operation = "unsubscribe" THEN "inactive" ELSE "active"

\* C17: when the record the lookup returned is no longer in the table at the
\* time of the update by id (the admin deleted it in between), the update
\* writes nothing and the message is counted as failed, not as processed.
C17_UpdateAfterDelete ==
    [][\A w \in Sequential :
          (AppliesToFound(w) /\ ById(subscribers_table, existing_subscriber[w].id) = {})
             => (subscribers_table' = subscribers_table /\ CountsFailed(w))]_vars

\* C18: the engine's write to the record its lookup returned, when that
\* record is still in the table, sets status (on a status change) and
\* updated_at on the record as the table holds it and leaves every other
\* attribute, so an email the admin wrote since the lookup stays; the
\* admin's email update sets email and updated_at on the record as the table
\* holds it and leaves every other attribute, so a status the engine wrote
\* stays.
C18_NarrowWrites ==
    [][/\ \A w \in Sequential :
             (AppliesToFound(w) /\ ById(subscribers_table, existing_subscriber[w].id) # {})
                => LET r == CHOOSE it \in subscribers_table :
                               it.id = existing_subscriber[w].id
                   IN  /\ subscribers_table' =
                             Replaced(subscribers_table, r,
                                      [r EXCEPT !.status = StatusWritten(w),
                                                !.updated_at = current_timestamp[w]])
                       /\ \A q \in ById(subscribers_table', r.id) : q.email = r.email
       /\ AdminUpdate
             => \/ subscribers_table' = subscribers_table
                \/ \E r \in subscribers_table, e \in AdminEmails :
                      /\ subscribers_table' =
                            Replaced(subscribers_table, r,
                                     [r EXCEPT !.email = e, !.updated_at = now])
                      /\ \A q \in ById(subscribers_table', r.id) : q.status = r.status]_vars

\* C18 witness: the one record ever made was looked up by an unsubscribe
\* under its first address, then given a new address by the admin, then
\* written by that unsubscribe: it has the admin's address and the engine's
\* status.
C18_Witness ==
    /\ hist.operation = "unsubscribe" /\ hist.start = "Absent" /\ hist.n = 1
    /\ hist.prev = "subscribe"
    /\ uuid = 1
    /\ \E r \in ByEmail(subscribers_table, "c@x.com") : r.status = "inactive"

\* C19: no step changes the subscribed_at of a record that stays in the
\* table, be it an engine transition or the admin's email update; a record
\* gets its subscribed_at, the clock value read for the message, when it is
\* made.
C19_SubscribedAtKept ==
    [][/\ \A r \in subscribers_table : \A q \in ById(subscribers_table', r.id) :
             "subscribed_at" \in DOMAIN r
                => ("subscribed_at" \in DOMAIN q /\ q.subscribed_at = r.subscribed_at)
       /\ \A w \in Sequential :
             (Applies(w) /\ existing_subscriber[w] = None
                /\ operation_message[w].operation = "subscribe")
                => \E q \in subscribers_table' \ subscribers_table :
                      q.subscribed_at = current_timestamp[w]]_vars

\* C19 witness: a record made at time 1 has since been deactivated by the
\* engine and given a new address by the admin, and it is time 3.
C19_Witness ==
    /\ now = 3
    /\ \E r \in ByEmail(subscribers_table, "c@x.com") :
          /\ r.status = "inactive"
          /\ r.subscribed_at = 1 /\ r.updated_at = 3

C21_TimestampIndependent ==
    /\ shadow = subscribers_table
    /\ \A r \in subscribers_table :
          r.subscribed_at \in 1..now /\ r.updated_at \in 1..now

\* C21 witness: both runs have made a record, deactivated it and made it
\* active again at a later second, and a message produced at the later time
\* is about to be applied.
C21_Witness ==
    /\ pc[1] = "apply"
    /\ operation_message[1].timestamp = 2000
    /\ shadow # {}
    /\ \E r \in shadow : r.status = "active" /\ r.subscribed_at < r.updated_at
    /\ \E r \in shadow : r.status = "inactive"

\* C22: every record of the table has a name: no subscribe message without a
\* name (null or left out) makes the engine create a record whose name is
\* None.
C22_CreatedWithName ==
    \A r \in subscribers_table : "name" \in DOMAIN r /\ r.name # NULL

\* Where a request, or the request a message stands for, came from.
Provenance(r) == <<r.ip_address, r.user_agent>>

\* C23: the ip_address and user_agent of a record that stays in the table
\* change only in a step of the engine that changes the record's status,
\* and then to those of the message applied; a record that is made gets
\* those of the message that made it; so a subscribe for an Active address,
\* an unsubscribe for an Inactive or Absent one and the admin's email update
\* leave them as they are.
C23_ProvenanceKept ==
    [][/\ \A r \in subscribers_table : \A q \in ById(subscribers_table', r.id) :
             Provenance(q) # Provenance(r)
                => \E w \in Sequential :
                      /\ Applies(w)
                      /\ q.status # r.status
                      /\ Provenance(q) = Provenance(operation_message[w])
       /\ \A w \in Sequential :
             Applies(w) =>
                \A q \in subscribers_table' :
                   ById(subscribers_table, q.id) = {}
                      => Provenance(q) = Provenance(operation_message[w])
       /\ \A w \in Sequential :
             (AppliesTo(w, "subscribe", "Active") \/ AppliesTo(w, "unsubscribe", "Inactive")
                \/ AppliesTo(w, "unsubscribe", "Absent"))
                => \A r \in subscribers_table :
                      \E q \in subscribers_table' : q.id = r.id /\ Provenance(q) = Provenance(r)
       /\ AdminUpdate
             => \A r \in subscribers_table :
                   \E q \in subscribers_table' : q.id = r.id /\ Provenance(q) = Provenance(r)]_vars

\* C23 witness: a record made by a message from one place was deactivated
\* and made active again by messages from another place and given a new
\* address by the admin, and it still has the place it was made from.
C23_Witness ==
    /\ pc[1] = "done"
    /\ Len(event[1]) = 3 /\ processed_count[1] = 3
    /\ event[1][1].body.data.operation = "subscribe"
    /\ event[1][1].body.data.ip_address = "1.1.1.1"
    /\ event[1][2].body.data.operation = "unsubscribe"
    /\ event[1][2].body.data.ip_address = "2.2.2.2"
    /\ event[1][3].body.data.operation = "subscribe"
    /\ event[1][3].body.data.ip_address = "2.2.2.2"
    /\ \E r \in ByEmail(subscribers_table, "c@x.com") :
          r.status = "active" /\ Provenance(r) = <<"1.1.1.1", "UA1">>

\* ------------------------------------------------ claims: the API handlers

\* C24 (the status of every record): every item of the table has a status,
\* and it is 'active' or 'inactive'.
C24_StatusEnum ==
    \A it \in subscribers_table :
        "status" \in DOMAIN it /\ it.status \in {"active", "inactive"}

\* The operation an intake request asks for.
Asked(request) ==
    IF request.route = "POST /v1/newsletter" THEN "subscribe" ELSE "unsubscribe"

\* The request has an address that validates and, for a subscribe, a name.
ValidIntake(request) ==
    /\ "email" \in DOMAIN request.body
    /\ NormalizeEmail(request.body.email) \in Emails
    /\ Asked(request) = "subscribe"
          => ("name" \in DOMAIN request.body /\ request.body.name # "")

\* C27: a valid POST or DELETE /v1/newsletter request whose send succeeds is
\* answered 200 and puts exactly one message at the end of the queue: its
\* operation is the endpoint's (subscribe with the request's name,
\* unsubscribe with name None), its email the request's as validated, its
\* ip_address and user_agent the request's sourceIp and userAgent; a request
\* with an invalid address or (subscribe) without a name is answered 400 and
\* leaves the queue as it is; neither writes to the table.
C27_Intake ==
    [][(handle_subscribe \/ handle_unsubscribe) =>
          LET request == response'.request IN
          /\ subscribers_table' = subscribers_table
          /\ IF ValidIntake(request)
             THEN /\ response'.status = 200
                  /\ Len(queue') = Len(queue) + 1
                  /\ SubSeq(queue', 1, Len(queue)) = queue
                  /\ queue'[Len(queue')].json
                  /\ LET m == queue'[Len(queue')].data IN
                        /\ m.operation = Asked(request)
                        /\ m.email = NormalizeEmail(request.body.email)
                        /\ m.name = IF Asked(request) = "subscribe"
                                    THEN request.body.name ELSE NULL
                        /\ m.ip_address = request.http.sourceIp
                        /\ m.user_agent = request.http.userAgent
             ELSE /\ response'.status = 400
                  /\ queue' = queue]_vars

\* C27 witness: a subscribe from one place and then an unsubscribe typed
\* with an upper-case domain from another are in the queue, the latter just
\* answered 200, and nothing is in the table.
C27_Witness ==
    /\ Len(queue) = 2
    /\ queue[1].data.operation = "subscribe" /\ queue[1].data.name = "A"
    /\ queue[1].data.ip_address = "1.1.1.1"
    /\ queue[2].data.operation = "unsubscribe" /\ queue[2].data.name = NULL
    /\ queue[2].data.ip_address = "2.2.2.2" /\ queue[2].data.email = "a@x.com"
    /\ response.status = 200
    /\ response.request.route = "DELETE /v1/newsletter"
    /\ response.request.body.email = "a@X.COM"
    /\ subscribers_table = {}

\* The request answered last was an intake request for operation op,
\* answered 200.
Accepted(op) ==
    /\ response.status = 200
    /\ response.request.route # "GET /v1/newsletter/status"
    /\ Asked(response.request) = op

\* A message for operation op is in the queue and still to be applied: not
\* yet taken by the handler, in its hands, or taken and listed as failed.
Pending(op) ==
    \E i \in 1..Len(queue) :
        /\ queue[i].data.operation = op
        /\ \/ i > idx[1]
           \/ i = idx[1] /\ pc[1] \in {"query", "apply"}
           \/ i \in FailedHandles(1)

\* C28: with a queue that delivers again what was not acknowledged, a
\* handler that keeps being invoked and a table that is available in the
\* end: a subscribe request answered 200 has its message pending, and a
\* pending subscribe leads to its address being Active; an unsubscribe
\* request answered 200 has its message pending, and a pending unsubscribe
\* for an address that is Active leads to the address being Inactive
\* (a@x.com is the one address the requests that validate name).
C28_EndToEnd ==
    /\ [][\A op \in {"subscribe", "unsubscribe"} :
             (response' # response /\ Accepted(op)') => Pending(op)']_vars
    /\ Pending("subscribe") ~> (StateOf(subscribers_table, "a@x.com") = "Active")
    /\ (Pending("unsubscribe") /\ StateOf(subscribers_table, "a@x.com") = "Active")
          ~> (StateOf(subscribers_table, "a@x.com") = "Inactive")

\* C28 witness: a subscribe and after it an unsubscribe were accepted; the
\* subscribe met a table call that raised, stayed in the queue and was
\* applied when delivered again, after the unsubscribe: the queue is empty
\* and the address Active.
C28_Witness ==
    /\ pc[1] = "idle"
    /\ queue = <<>>
    /\ Accepted("unsubscribe")
    /\ StateOf(subscribers_table, "a@x.com") = "Active"

\* C29: GET /v1/newsletter/status without an email parameter is answered
\* 400; with an address that validates it is answered 200, with status
\* 'not_found' exactly when the table has no record for that address, and
\* otherwise with the status, subscribed_at and updated_at of the address's
\* record; the request leaves the table and the queue as they are.
C29_Status ==
    [][handle_status =>
          LET request == response'.request IN
          /\ subscribers_table' = subscribers_table
          /\ queue' = queue
          /\ request.email = NULL => response'.status = 400
          /\ (request.email # NULL /\ ValidEmail(request.email)) =>
                LET records == ByEmail(subscribers_table, NormalizeEmail(request.email)) IN
                /\ response'.status = 200
                /\ response'.body.status = "not_found" <=> records = {}
                /\ records # {} =>
                      \E r \in records :
                         /\ response'.body.status = r.status
                         /\ response'.body.subscribed_at = r.subscribed_at
                         /\ response'.body.updated_at = r.updated_at]_vars

\* The engine's step that makes a record.
Creates(w) ==
    /\ Applies(w)
    /\ operation_message[w].operation = "subscribe"
    /\ existing_subscriber[w] = None

\* C25: DELETE /v1/newsletter/admin/subscribers/<subscriber_id> for an id
\* the table has an item under is answered 200 and removes that item and no
\* other, after which the item's address is Absent; for an id the table has
\* no item under it is answered 404 and leaves the table as it is; either
\* way the queue stays as it is; and a record the engine makes afterwards
\* gets an id never handed out before and the clock value read for its
\* message as subscribed_at.
C25_AdminDelete ==
    [][/\ handle_delete_subscriber =>
             LET id == response'.request.subscriber_id IN
             /\ queue' = queue
             /\ IF ById(subscribers_table, id) = {}
                THEN /\ response'.status = 404
                     /\ subscribers_table' = subscribers_table
                ELSE /\ response'.status = 200
                     /\ subscribers_table' = subscribers_table \ ById(subscribers_table, id)
                     /\ \A r \in ById(subscribers_table, id) :
                           StateOf(subscribers_table', r.email) = "Absent"
       /\ \A w \in Sequential :
             Creates(w) =>
                \E q \in subscribers_table' \ subscribers_table :
                   /\ q.id > uuid
                   /\ q.subscribed_at = current_timestamp[w]
       /\ \A q \in subscribers_table' : q.id <= uuid']_vars

\* C26: PATCH /v1/newsletter/admin/subscribers/<subscriber_id> with an
\* address that validates, for an id the table has an item under, is
\* answered 200 with the record as updated and sets that item's email to the
\* address and its updated_at to the clock value, changing nothing else; for
\* an id the table has no item under it is answered 404 and leaves the table
\* as it is.
C26_AdminUpdate ==
    [][handle_update_subscriber =>
          LET request == response'.request IN
          NormalizeEmail(request.body.email) \in AdminEmails =>
             IF ById(subscribers_table, request.subscriber_id) = {}
             THEN /\ response'.status = 404
                  /\ subscribers_table' = subscribers_table
             ELSE /\ response'.status = 200
                  /\ \E r \in ById(subscribers_table, request.subscriber_id) :
                        LET q == [r EXCEPT !.email = NormalizeEmail(request.body.email),
                                           !.updated_at = now]
                        IN  /\ subscribers_table' = Replaced(subscribers_table, r, q)
                            /\ \A k \in DOMAIN q : response'.data[k] = q[k]]_vars

\* The ids of the subscribers met by asking for the first page and then,
\* as long as a page comes with a token, for the page the token stands for;
\* not ended when a request fails or the pages run out.
RECURSIVE Follow(_, _, _, _, _)
Follow(tbl, limit, status, next_token, pages) ==
    LET page == list_subscribers(tbl, limit, next_token, status) IN
    IF pages = 0 \/ page \in {Raised, Invalid}
    THEN [ended |-> FALSE, ids |-> <<>>]
    ELSE LET ids == [i \in 1..Len(page.subscribers) |-> page.subscribers[i].id] IN
         IF "next_token" \in DOMAIN page
         THEN LET rest == Follow(tbl, limit, status, page.next_token, pages - 1)
              IN  [ended |-> rest.ended, ids |-> ids \o rest.ids]
         ELSE [ended |-> TRUE, ids |-> ids]

\* The items a listing with the given filter is about.
Matching(tbl, status) ==
    IF status = NULL THEN tbl
    ELSE {it \in tbl : "status" \in DOMAIN it /\ it.status = status}

\* C30: a listing asked for with a limit the parameters admit, and with no
\* token or the token of the page before, is answered with a page that has
\* a next token exactly when the store named a last evaluated key, and the
\* token decodes to that key; and on any table, asking for the first page
\* and following the tokens until a page has none meets every item the
\* listing is about (with a status filter: the items of that status) once
\* and no other.
C30_Pagination ==
    /\ [][handle_list_subscribers =>
             LET request == response'.request IN
             (request.limit >= 1 /\ request.next_token \notin OddTokens) =>
                LET start_key == IF request.next_token = <<>> THEN <<>>
                                 ELSE decode_token(request.next_token).dict
                    answer == IF request.status # NULL
                              THEN QueryStatusIndex(subscribers_table, request.status,
                                                    request.limit, start_key)
                              ELSE Scan(subscribers_table, request.limit, start_key)
                IN  /\ response'.status = 200
                    /\ "next_token" \in DOMAIN response'.data
                          <=> "LastEvaluatedKey" \in DOMAIN answer
                    /\ "next_token" \in DOMAIN response'.data =>
                          decode_token(response'.data.next_token)
                             = [dict |-> answer.LastEvaluatedKey]]_vars
    /\ [](\A limit \in Limits \ {0}, status \in {NULL, "active", "inactive"} :
             LET walk == Follow(subscribers_table, limit, status, <<>>,
                                Cardinality(subscribers_table) + 1)
             IN  /\ walk.ended
                 /\ \A i, j \in 1..Len(walk.ids) : walk.ids[i] = walk.ids[j] => i = j
                 /\ {walk.ids[i] : i \in 1..Len(walk.ids)}
                       = {it.id : it \in Matching(subscribers_table, status)})

\* ------------------------------------------- claims: the whole system

\* C31: the statistics count every item of the table, however many answers
\* the scan takes: total_subscribers is the number of items, active_count
\* the number of items whose status is 'active', inactive_count the number
\* of all others, and asking for them leaves the table as it is.
C31_Stats ==
    [][handle_get_stats =>
          /\ subscribers_table' = subscribers_table
          /\ response'.status = 200
          /\ response'.data.total_subscribers = Cardinality(subscribers_table)
          /\ response'.data.active_count
                = Cardinality({it \in subscribers_table :
                                 "status" \in DOMAIN it /\ it.status = "active"})
          /\ response'.data.inactive_count
                = Cardinality({it \in subscribers_table :
                                 ~("status" \in DOMAIN it /\ it.status = "active")})
          /\ response'.data.active_count + response'.data.inactive_count
                = response'.data.total_subscribers]_vars

\* Statistics were given of a table of two items, one of them active.
C31_Witness ==
    /\ response.request.route = "GET /v1/newsletter/admin/stats"
    /\ response.data.total_subscribers = 2
    /\ response.data.active_count = 1
    /\ Cardinality(subscribers_table) = 2

\* The table that applying the messages of the records one at a time makes
\* of a table: each message looked up and written in one go, in the order of
\* the records, ids handed out from after the given one.
RECURSIVE OneAtATime(_, _, _)
OneAtATime(tbl, records, id) ==
    IF records = <<>> THEN tbl
    ELSE LET m == OperationMessage(Head(records).body.data)
             found == CHOOSE f \in query_subscriber_by_email(tbl, m.email) : TRUE
         IN  IF m.operation = "subscribe"
             THEN OneAtATime(process_subscribe_operation(tbl, found, m, now, id + 1),
                             Tail(records), IF found = None THEN id + 1 ELSE id)
             ELSE OneAtATime(process_unsubscribe_operation(tbl, found, now),
                             Tail(records), id)

\* The operations and addresses of the messages of an event, in its order.
Intents(records) ==
    [i \in 1..Len(records) |-> <<records[i].body.data.operation, records[i].body.data.email>>]

\* C32: whenever the handler is between two records of its batch, and when
\* it has returned, the table is what applying the records taken so far one
\* at a time in the order of the event makes of the table the batch found;
\* a batch of a subscribe and then an unsubscribe for an address leaves one
\* record for it, inactive, and a batch of two subscribes for an address
\* leaves one record for it.
C32_BatchInOrder ==
    \A w \in Sequential :
       pc[w] \in {"loop", "done"} =>
          /\ subscribers_table = OneAtATime({}, SubSeq(event[w], 1, idx[w]), 0)
          /\ \A e \in Emails :
                /\ (pc[w] = "done" /\ Intents(event[w]) = <<<<"subscribe", e>>, <<"unsubscribe", e>>>>)
                      => /\ Cardinality(ByEmail(subscribers_table, e)) = 1
                         /\ StateOf(subscribers_table, e) = "Inactive"
                /\ (pc[w] = "done" /\ Intents(event[w]) = <<<<"subscribe", e>>, <<"subscribe", e>>>>)
                      => Cardinality(ByEmail(subscribers_table, e)) = 1

\* A batch of a subscribe and then an unsubscribe for a@x.com has been
\* handled to its end.
C32_Witness ==
    /\ pc[1] = "done"
    /\ Intents(event[1]) = <<<<"subscribe", "a@x.com">>, <<"unsubscribe", "a@x.com">>>>
    /\ StateOf(subscribers_table, "a@x.com") = "Inactive"

\* C33: within an invocation the handler comes to the lookup of a message
\* only by taking the next record of its event; the lookup is made once and
\* writes nothing, and is followed by the write or, when it raised, by the
\* next record; the table changes only in the one table call that follows
\* the lookup, and whether that call returns or raises the handler goes on to
\* the next record, never back to the lookup or the write; and the records
\* are taken one after the other, none of them twice.
C33_OneAttempt ==
    [][\A w \in Sequential :
          /\ (pc'[w] = "query" /\ pc[w] # "query") =>
                (pc[w] = "loop" /\ idx'[w] = idx[w] + 1)
          /\ (pc[w] = "query" /\ pc'[w] # "query") =>
                /\ Query(w) \/ QueryFails(w)
                /\ pc'[w] \in {"apply", "loop"}
                /\ idx'[w] = idx[w]
                /\ subscribers_table' = subscribers_table
          /\ subscribers_table' # subscribers_table =>
                (pc[w] = "apply" /\ pc'[w] = "loop" /\ idx'[w] = idx[w])
          /\ (pc[w] = "apply" /\ pc'[w] # "apply") =>
                (pc'[w] = "loop" /\ idx'[w] = idx[w])
          /\ pc[w] = "apply" => pc'[w] \in {"apply", "loop"}
          /\ idx'[w] # idx[w] =>
                \/ idx'[w] = idx[w] + 1 /\ event'[w] = event[w]
                \/ idx'[w] = 0 /\ pc[w] \in {"idle", "done"}]_vars

\* The only record of a batch was written and the call raised all the same:
\* the handler returned with the record failed and the table changed.
C33_Witness ==
    /\ pc[1] = "done"
    /\ Len(event[1]) = 1
    /\ idx[1] = 1
    /\ processed_count[1] = 0
    /\ Len(failed_messages[1]) = 1
    /\ subscribers_table # {}

\* C34: an intake request is answered 200, 400 or 500; it is answered 200
\* only in a step that puts exactly one message at the end of the queue, the
\* one for the request's operation and validated address; and a valid request
\* whose send did not put a message into the queue is answered 500.
C34_AcceptedMeansEnqueued ==
    [][(\/ handle_subscribe \/ handle_unsubscribe
        \/ SubscribeFails(PublicRequests) \/ UnsubscribeFails(PublicRequests)) =>
          LET request == response'.request IN
          /\ response'.status \in {200, 400, 500}
          /\ response'.status = 200 =>
                /\ Len(queue') = Len(queue) + 1
                /\ SubSeq(queue', 1, Len(queue)) = queue
                /\ queue'[Len(queue')].data.operation = Asked(request)
                /\ queue'[Len(queue')].data.email = NormalizeEmail(request.body.email)
          /\ (ValidIntake(request) /\ queue' = queue) => response'.status = 500
          /\ subscribers_table' = subscribers_table]_vars

\* A subscribe request that validates was answered 500, nothing being in the
\* queue.
C34_Witness ==
    /\ response.status = 500
    /\ response.request.route = "POST /v1/newsletter"
    /\ ValidIntake(response.request)
    /\ queue = <<>>
    /\ subscribers_table = {}

\* C35: the two counters together say how many records the handler is done
\* with: as many as it has taken, less the one it has in hand, and all of the
\* event when it has returned; a step counts at most one record, as
\* processed or as failed and never as both; and a record is counted as
\* processed only in the step in which the table call that follows its
\* lookup returns, the lookup having returned before it.
C35_CountedOnce ==
    /\ [](\A w \in Sequential :
             /\ pc[w] = "loop" => processed_count[w] + failed_count[w] = idx[w]
             /\ pc[w] \in {"query", "apply"} =>
                   processed_count[w] + failed_count[w] = idx[w] - 1
             /\ pc[w] = "done" => processed_count[w] + failed_count[w] = Len(event[w]))
    /\ [][\A w \in Sequential :
             \/ idx'[w] = 0
             \/ /\ processed_count'[w] - processed_count[w] \in {0, 1}
                /\ failed_count'[w] - failed_count[w] \in {0, 1}
                /\ ~(processed_count'[w] # processed_count[w]
                       /\ failed_count'[w] # failed_count[w])
                /\ processed_count'[w] # processed_count[w] =>
                      /\ pc[w] = "apply" /\ pc'[w] = "loop"
                      /\ ApplyConcurrent(w)
                      /\ Len(failed_messages'[w]) = Len(failed_messages[w])]_vars

\* A batch of three has been handled: one record processed, one failed for
\* a table call that raised and one for a body that is not JSON.
C35_Witness ==
    /\ pc[1] = "done"
    /\ Len(event[1]) = 3
    /\ processed_count[1] = 1
    /\ failed_count[1] = 2
    /\ \E i \in 1..Len(failed_messages[1]) : failed_messages[1][i].error = "ClientError"
    /\ \E i \in 1..Len(failed_messages[1]) : failed_messages[1][i].error = "JSONDecodeError"

\* C36: whatever messages the engine has handled and whatever addresses the
\* admin has given to subscribers or subscribers the admin has deleted, no
\* address is the email of two items of the table.
C36_AdminKeepsUnique ==
    \A e \in Emails \cup AdminEmails : Cardinality(ByEmail(subscribers_table, e)) <= 1

\* C37: every item of the table is a whole record: it has an id, an email, a
\* status, a subscribed_at and an updated_at, and its updated_at is not
\* before its subscribed_at.
C37_RecordsComplete ==
    \A it \in subscribers_table :
        /\ {"id", "email", "status", "subscribed_at", "updated_at"} \subseteq DOMAIN it
        /\ it.updated_at >= it.subscribed_at

\* C38: when the engine's write to the record its lookup returned changes
\* that record's status, the email the record has in the table at the time
\* of the write is the email of the message being handled.
C38_StatusForOwnEmail ==
    [][\A w \in Sequential :
          AppliesToFound(w)
             => \A r \in ById(subscribers_table, existing_subscriber[w].id) :
                   \A q \in ById(subscribers_table', r.id) :
                      ({"status", "email"} \subseteq DOMAIN r /\ "status" \in DOMAIN q
                          /\ q.status # r.status)
                         => r.email = operation_message[w].email]_vars

====
